---- MODULE Spec2Model ----
(***************************************************************************)
(* A model of the Fotoprotokoll generator: stage 1 (stage1_ingest.py),     *)
(* stage 3a with its analysis cache and Vision API retries                 *)
(* (stage3a_enrich.py), stage 3b (stage3b_match.py), the ContentItem model *)
(* (models/content_plan.py), stage 4 (stage4_layout.py) and the pipeline   *)
(* driver (run_pipeline.py).                                               *)
(*                                                                         *)
(* Numbers.  Python floats are modelled as exact rationals [n, d] (d > 0). *)
(* round(x, 4) is round-half-to-even on the exact value and yields a       *)
(* rational with denominator 10000.                                        *)
(* Strings that are tokenized are sequences of one-character strings;      *)
(* strings that are only copied (ids, headings) are TLA+ strings.          *)
(* Times of day are seconds since midnight; a datetime is [day, tod].      *)
(* An optional value (Python None or a value) is a sequence of length <= 1. *)
(***************************************************************************)
EXTENDS Integers, Sequences, FiniteSets, TLC

VARIABLES
    pc,             \* position of the modelled run
    settings,       \* Settings (settings.py)
    manifest,       \* ProjectManifest (models/manifest.py)
    photo_set,      \* EnrichedPhotoSet.enriched_photos
    photo_scores,   \* run() local: photo id -> session id -> <<temporal, semantic>>
    content_plan,   \* ContentPlan.items
    page_plan,      \* PagePlan.pages
    cache,          \* data/.cache: artifact name -> serialized record
    item_kwargs,    \* keyword arguments handed to ContentItem(...)
    loaded_plan,    \* ContentPlan validated from cache["content_plan.json"]
    call_frame,     \* arguments, locals and return value of the last modelled call
    project_dir,    \* the project directory: agenda/, fotos/, text/ and output/
    api_calls       \* the requests the OpenAI Vision endpoint has received

vars == <<pc, settings, manifest, photo_set, photo_scores, content_plan,
          page_plan, cache, item_kwargs, loaded_plan, call_frame, project_dir,
          api_calls>>

\* Optional values: None is the empty sequence, a present value v is <<v>>
None == <<>>

Some(v) == <<v>>

-----------------------------------------------------------------------------
(* Bounds of the model *)

MaxSessions == 2
MaxPhotos == 2
MaxItems == 2
MaxLayoutPhotos == 3
MaxPerPage == 2

-----------------------------------------------------------------------------
(* Rational arithmetic standing for Python float arithmetic *)

RECURSIVE GCD(_, _)
GCD(a, b) == IF b = 0 THEN a ELSE GCD(b, a % b)

LCM(a, b) == (a \div GCD(a, b)) * b

\* the rational n/d (n >= 0, d > 0) in lowest terms
Rat(n, d) == LET g == GCD(n, d) IN [n |-> n \div g, d |-> d \div g]

RatLess(a, b) == LET l == LCM(a.d, b.d) IN a.n * (l \div a.d) < b.n * (l \div b.d)

RatLeq(a, b) == ~RatLess(b, a)

RatAdd(a, b) ==
    LET l == LCM(a.d, b.d) IN Rat(a.n * (l \div a.d) + b.n * (l \div b.d), l)

RatMul(a, b) ==
    LET g1 == GCD(a.n, b.d)
        g2 == GCD(b.n, a.d)
    IN  Rat((a.n \div g1) * (b.n \div g2), (a.d \div g2) * (b.d \div g1))

RatMax(a, b) == IF RatLess(a, b) THEN b ELSE a

\* round-half-to-even of num/den for num >= 0, den > 0
RoundDiv(num, den) ==
    LET q == num \div den
        r == num % den
    IN  IF 2 * r < den THEN q
        ELSE IF 2 * r > den THEN q + 1
        ELSE IF q % 2 = 0 THEN q ELSE q + 1

\* Python round(x, 4)
Round4(x) ==
    LET g == GCD(10000, x.d) IN Rat(RoundDiv(x.n * (10000 \div g), x.d \div g), 10000)

RECURSIVE SumRat(_)
SumRat(seq) ==
    IF seq = <<>> THEN Rat(0, 1) ELSE RatAdd(Head(seq), SumRat(Tail(seq)))

\* an aggregate that takes the first score instead of the mean
mean_first_only(seq) == Head(seq)

\* statistics.mean of a non-empty list
mean(seq) == RatMul(SumRat(seq), Rat(1, Len(seq)))

-----------------------------------------------------------------------------
(* Input domains *)

SessionIds == <<"session_001", "session_002", "session_003", "session_004">>

PhotoIds == <<"photo_001", "photo_002", "photo_003", "photo_004", "photo_005">>

ItemIds == <<"item_001", "item_002", "item_003", "item_004">>

\* time(h, m, s) as seconds since midnight
Time(h, m, s) == h * 3600 + m * 60 + s

\* session names by position in the agenda
SessionNames ==
    << <<"O","G","S">>, <<"k","l"," ","o","g","s">>,
       <<"t","s","1">>, <<"k","l">> >>

\* <<start_time, end_time>> of a session: no times, a closed window, and two
\* open-ended sessions
SessionTimes ==
    { <<None, None>>,
      <<Some(Time(9, 0, 0)), Some(Time(10, 0, 0))>>,
      <<Some(Time(9, 0, 0)), None>>,
      <<Some(Time(10, 0, 0)), None>> }

\* AgendaSession as utils/agenda_parser.py builds it: id and order from the position
AgendaSession(i, times) ==
    [id |-> SessionIds[i], order |-> i, name |-> SessionNames[i],
     start_time |-> times[1], end_time |-> times[2]]

SessionLists ==
    UNION { { [i \in 1..n |-> AgendaSession(i, t[i])] : t \in [1..n -> SessionTimes] } :
            n \in 0..MaxSessions }

\* a timezone-aware datetime: the calendar day, the wall-clock time of day in
\* seconds and the UTC offset of its tzinfo in minutes
DatetimeTz(day, tod, utcoffset) == [day |-> day, tod |-> tod, utcoffset |-> utcoffset]

\* a UTC datetime, as stage 1 builds them
Datetime(day, tod) == DatetimeTz(day, tod, 0)

FileStamp == Some(Datetime(2, Time(10, 20, 0)))

Orientations == {"landscape", "portrait", "square"}

\* Photo as pipeline/stage1_ingest.py builds it: id from the position
Photo(i, exif, orientation) ==
    [id |-> PhotoIds[i], timestamp_exif |-> exif, timestamp_file |-> FileStamp,
     orientation |-> orientation]

\* The analysis fields of an enriched photo
AnalysisA ==
    [description |-> <<"o","g","s">>, ocr_text |-> None,
     topic_keywords |-> << <<"k","l">> >>, crop_box |-> None]

AnalysisB ==
    [description |-> <<>>, ocr_text |-> Some(<<"t","s","_","x"," ","K","L">>),
     topic_keywords |-> <<>>, crop_box |-> None]

\* <<timestamp_exif, analysis>> of a photo; the analysis is None when stage 3a
\* skipped the photo
PhotoKinds ==
    { <<None, None>>,
      <<Some(Datetime(1, Time(9, 30, 0))), Some(AnalysisA)>>,
      <<Some(Datetime(1, Time(10, 10, 30))), Some(AnalysisB)>>,
      <<None, Some(AnalysisA)>> }

EnrichedPhoto(photo_id, a) ==
    [photo_id |-> photo_id, description |-> a.description, ocr_text |-> a.ocr_text,
     topic_keywords |-> a.topic_keywords, crop_box |-> a.crop_box]

\* the file contents of the photos; sha256 is injective on them, so a content
\* stands for its own hash
Contents == { "bytes_a", "bytes_b" }

\* the files a fotos/ directory can hold, in sorted order
FotoPaths == << "fotos/a.jpg", "fotos/b.jpg" >>

SnippetLists ==
    { <<>>, << [id |-> "text_001", content |-> <<"t","s">>] >> }

Weights == { <<Rat(60, 100), Rat(40, 100)>>, <<Rat(30, 100), Rat(70, 100)>> }

Thresholds == { Rat(65, 100), Rat(50, 100) }

-----------------------------------------------------------------------------
(* models/manifest.py *)

\* Photo.best_timestamp
best_timestamp(photo) ==
    IF photo.timestamp_exif # None THEN photo.timestamp_exif ELSE photo.timestamp_file

-----------------------------------------------------------------------------
(* pipeline/stage3b_match.py: temporal scoring *)

Minutes(t) == t \div 60

Abs(x) == IF x < 0 THEN -x ELSE x

Min2(a, b) == IF a <= b THEN a ELSE b

time_in_window(t, start, end) == start <= t /\ t <= end

\* a distance that is measured to the start of the window only
minutes_distance_to_start(t, start, end) ==
    LET t_mins == Minutes(t)
        s_mins == Minutes(start)
        e_mins == Minutes(end)
    IN  IF s_mins <= t_mins /\ t_mins <= e_mins THEN 0
        ELSE Abs(t_mins - s_mins)

minutes_distance(t, start, end) ==
    LET t_mins == Minutes(t)
        s_mins == Minutes(start)
        e_mins == Minutes(end)
    IN  IF s_mins <= t_mins /\ t_mins <= e_mins THEN 0
        ELSE Min2(Abs(t_mins - s_mins), Abs(t_mins - e_mins))

add_minutes(t, minutes) ==
    LET total == Min2(Minutes(t) + minutes, 23 * 60 + 59)
    IN  Time(total \div 60, total % 60, 0)

\* an effective end that takes the start of the last later session, not of the next
effective_end_last_start(session, all_sessions) ==
    IF session.end_time # None THEN session.end_time[1]
    ELSE LET next_sessions ==
                 { i \in 1..Len(all_sessions) :
                     /\ all_sessions[i].order > session.order
                     /\ all_sessions[i].start_time # None }
         IN  IF next_sessions # {}
             THEN LET m == CHOOSE i \in next_sessions :
                               \A j \in next_sessions :
                                   all_sessions[j].order <= all_sessions[i].order
                  IN  all_sessions[m].start_time[1]
             ELSE add_minutes(session.start_time[1], 90)

\* the effective end of a session's window (stage3b_match.py lines 156-166)
effective_end(session, all_sessions) ==
    IF session.end_time # None THEN session.end_time[1]
    ELSE LET next_sessions ==
                 { i \in 1..Len(all_sessions) :
                     /\ all_sessions[i].order > session.order
                     /\ all_sessions[i].start_time # None }
         IN  IF next_sessions # {}
             THEN LET m == CHOOSE i \in next_sessions :
                               \A j \in next_sessions :
                                   \/ all_sessions[i].order < all_sessions[j].order
                                   \/ (all_sessions[i].order = all_sessions[j].order
                                       /\ i <= j)
                  IN  all_sessions[m].start_time[1]
             ELSE add_minutes(session.start_time[1], 90)

\* a clock time converted to UTC before the timezone is dropped
clock_time_utc(ts) == (ts.tod - ts.utcoffset * 60 + 86400) % 86400

\* line 141, ts.time().replace(tzinfo=None): the wall-clock time as stored
clock_time(ts) == ts.tod

\* a scorer that is neutral for every session without a start time
temporal_score_untimed_neutral(photo, session, all_sessions) ==
    LET ts == best_timestamp(photo)
    IN  IF ts = None \/ session.start_time = None THEN Rat(5, 10)
        ELSE LET photo_time == ts[1].tod
                 start == session.start_time[1]
                 end == effective_end(session, all_sessions)
             IN  IF time_in_window(photo_time, start, end) THEN Rat(1, 1)
                 ELSE LET dist_minutes == minutes_distance(photo_time, start, end)
                      IN  IF dist_minutes >= 30 THEN Rat(0, 1)
                          ELSE Rat(30 - dist_minutes, 30)

temporal_score(photo, session, all_sessions) ==
    LET ts == best_timestamp(photo)
    IN  IF ts = None THEN Rat(5, 10)
        ELSE LET photo_time == clock_time(ts[1])
                 sessions_with_times ==
                     { i \in 1..Len(all_sessions) : all_sessions[i].start_time # None }
             IN  IF sessions_with_times = {} THEN Rat(5, 10)
                 ELSE IF session.start_time = None THEN Rat(1, 10)
                 ELSE LET start == session.start_time[1]
                          end == effective_end(session, all_sessions)
                      IN  IF time_in_window(photo_time, start, end) THEN Rat(1, 1)
                          ELSE LET dist_minutes ==
                                       minutes_distance(photo_time, start, end)
                               \* max(0.0, 1.0 - dist_minutes / 30.0)
                               IN  IF dist_minutes >= 30 THEN Rat(0, 1)
                                   ELSE Rat(30 - dist_minutes, 30)

\* the local variable end of _temporal_score when the call returns: None when the
\* call returned before line 154
temporal_end(photo, session, all_sessions) ==
    IF best_timestamp(photo) = None \/ session.start_time = None THEN None
    ELSE Some(effective_end(session, all_sessions))

\* one call _temporal_score(photo, all_sessions[i], all_sessions): its arguments,
\* the local end and the return value
temporal_call(photo, i, all_sessions) ==
    [fn |-> "_temporal_score", photo |-> photo, session |-> all_sessions[i],
     end |-> temporal_end(photo, all_sessions[i], all_sessions),
     result |-> temporal_score(photo, all_sessions[i], all_sessions)]

-----------------------------------------------------------------------------
(* pipeline/stage3b_match.py: semantic scoring *)

SEMANTIC_FLOOR == Rat(1, 10)

UpperToLower == [c \in {"A", "B", "C", "G", "K", "L", "O", "S", "T", "W", "X", "Ä"} |->
    CASE c = "A" -> "a" [] c = "B" -> "b" [] c = "C" -> "c" [] c = "G" -> "g"
      [] c = "K" -> "k" [] c = "L" -> "l" [] c = "O" -> "o" [] c = "S" -> "s"
      [] c = "T" -> "t" [] c = "W" -> "w" [] c = "X" -> "x" [] c = "Ä" -> "ä"]

\* str.lower() on one character
lower(c) == IF c \in DOMAIN UpperToLower THEN UpperToLower[c] ELSE c

\* the character class [a-zäöüßA-ZÄÖÜ] of the token pattern
AlphaChars ==
    {"a", "b", "c", "g", "h", "k", "l", "o", "p", "r", "s", "t", "w", "x", "ä", "ß"}
    \cup DOMAIN UpperToLower

\* the regex class \w: letters, digits and the underscore
WordChars == AlphaChars \cup {"0", "1", "2", "_"}

\* re.findall(r'\b[a-zäöüßA-ZÄÖÜ]{2,}\b', text.lower()): a match starts at a word
\* boundary, takes the whole run of class characters and must end at a word boundary
tokenize(text) ==
    LET s == [i \in 1..Len(text) |-> lower(text[i])]
        n == Len(text)
    IN  { SubSeq(s, p[1], p[2]) :
            p \in { q \in (1..n) \X (1..n) :
                      /\ q[2] - q[1] + 1 >= 2
                      /\ \A k \in q[1]..q[2] : s[k] \in AlphaChars
                      /\ (q[1] = 1 \/ s[q[1] - 1] \notin WordChars)
                      /\ (q[2] = n \/ s[q[2] + 1] \notin WordChars) } }

\* " ".join(parts)
RECURSIVE join(_)
join(parts) ==
    IF parts = <<>> THEN <<>>
    ELSE IF Len(parts) = 1 THEN parts[1]
    ELSE parts[1] \o <<" ">> \o join(Tail(parts))

\* a scorer without the floor
semantic_score_no_floor(enriched, session, text_snippets) ==
    IF enriched = None THEN SEMANTIC_FLOOR
    ELSE LET e == enriched[1]
             photo_words ==
                 tokenize(join(e.topic_keywords) \o <<" ">>
                          \o (IF e.ocr_text = None THEN <<>> ELSE e.ocr_text[1])
                          \o <<" ">> \o e.description)
             snippet_text ==
                 join([i \in 1..Len(text_snippets) |-> text_snippets[i].content])
             session_words == tokenize(session.name \o <<" ">> \o snippet_text)
         IN  IF photo_words = {} \/ session_words = {} THEN SEMANTIC_FLOOR
             ELSE Round4(Rat(Cardinality(photo_words \cap session_words),
                             Cardinality(photo_words \cup session_words)))

semantic_score(enriched, session, text_snippets) ==
    IF enriched = None THEN SEMANTIC_FLOOR
    ELSE LET e == enriched[1]
             photo_words ==
                 tokenize(join(e.topic_keywords) \o <<" ">>
                          \o (IF e.ocr_text = None THEN <<>> ELSE e.ocr_text[1])
                          \o <<" ">> \o e.description)
             snippet_text ==
                 join([i \in 1..Len(text_snippets) |-> text_snippets[i].content])
             session_words == tokenize(session.name \o <<" ">> \o snippet_text)
         IN  IF photo_words = {} \/ session_words = {} THEN SEMANTIC_FLOOR
             ELSE LET intersection == photo_words \cap session_words
                      union == photo_words \cup session_words
                      jaccard == Rat(Cardinality(intersection), Cardinality(union))
                  IN  RatMax(SEMANTIC_FLOOR, Round4(jaccard))

\* the text _semantic_score tokenizes for the photo (lines 215-219)
photo_text(e) ==
    join(e.topic_keywords) \o <<" ">>
    \o (IF e.ocr_text = None THEN <<>> ELSE e.ocr_text[1])
    \o <<" ">> \o e.description

\* the text _semantic_score tokenizes for the session (lines 222-225)
session_text(session, text_snippets) ==
    session.name \o <<" ">>
    \o join([i \in 1..Len(text_snippets) |-> text_snippets[i].content])

\* one call _semantic_score(enriched, session, text_snippets): its arguments and the
\* return value
semantic_call(enriched, session, text_snippets) ==
    [fn |-> "_semantic_score", enriched |-> enriched, session |-> session,
     result |-> semantic_score(enriched, session, text_snippets)]

\* one call _tokenize(text): its argument and the return value
tokenize_call(text) == [fn |-> "_tokenize", text |-> text, result |-> tokenize(text)]

-----------------------------------------------------------------------------
(* models/content_plan.py *)

TEMPORAL_WEIGHT == Rat(6, 10)

SEMANTIC_WEIGHT == Rat(4, 10)

\* the declared (stored) fields of ContentItem
ContentItemFields ==
    {"id", "session_ref", "heading", "photo_ids", "text_snippet_ref",
     "temporal_confidence", "semantic_confidence", "needs_review"}

\* ContentItem(**kwargs): the declared fields are stored, fields with a default may be
\* omitted, and any other key (such as combined_confidence) is ignored
ContentItem(kwargs) ==
    [f \in ContentItemFields |->
        IF f \in DOMAIN kwargs THEN kwargs[f]
        ELSE IF f = "photo_ids" THEN <<>>
        ELSE None]

\* a combined_confidence computed with equal weights
combined_confidence_equal_weights(item) ==
    Round4(RatAdd(RatMul(Rat(5, 10), item.temporal_confidence),
                  RatMul(Rat(5, 10), item.semantic_confidence)))

\* ContentItem.combined_confidence, the computed field
combined_confidence(item) ==
    Round4(RatAdd(RatMul(TEMPORAL_WEIGHT, item.temporal_confidence),
                  RatMul(SEMANTIC_WEIGHT, item.semantic_confidence)))

\* ContentItem.model_dump(): the stored fields and the computed field
item_dump(item) ==
    [f \in ContentItemFields \cup {"combined_confidence"} |->
        IF f = "combined_confidence" THEN combined_confidence(item) ELSE item[f]]

FloatFields == {"temporal_confidence", "semantic_confidence", "combined_confidence"}

\* A float written as a JSON number: its decimal digits, here the count of
\* millionths (the floats of the model have at most six decimals)
float_to_json(x) == [millionths |-> x.n * (1000000 \div x.d)]

\* A JSON number read back as a float
float_from_json(j) == Rat(j.millionths, 1000000)

\* ContentItem.model_dump_json()
item_dump_json(item) ==
    LET d == item_dump(item)
    IN  [f \in DOMAIN d |-> IF f \in FloatFields THEN float_to_json(d[f]) ELSE d[f]]

\* ContentPlan.model_dump_json()
plan_dump_json(items) == [items |-> [i \in 1..Len(items) |-> item_dump_json(items[i])]]

\* ContentItem.model_validate on a parsed JSON object
item_validate_json(j) ==
    ContentItem([f \in DOMAIN j |->
                    IF f \in FloatFields THEN float_from_json(j[f]) ELSE j[f]])

\* ContentPlan.model_validate on a parsed JSON document (run_pipeline._load_json)
plan_validate_json(doc) == [i \in 1..Len(doc.items) |-> item_validate_json(doc.items[i])]

-----------------------------------------------------------------------------
(* pipeline/stage3b_match.py: run() and its helpers *)

combined(scores, s) ==
    Round4(RatAdd(RatMul(s.temporal_weight, scores[1]),
                  RatMul(s.semantic_weight, scores[2])))

\* mutant of _find_text_snippet: every session receives the first snippet
find_text_snippet_every_session(session, text_snippets) ==
    IF text_snippets # <<>> THEN Some(text_snippets[1].id) ELSE None

find_text_snippet(session, text_snippets) ==
    IF session.order = 1 /\ text_snippets # <<>>
    THEN Some(text_snippets[1].id)
    ELSE None

\* {e.photo_id: e for e in photo_set.enriched_photos}.get(photo_id): the last entry
\* with that id, or None
enriched_get(enriched_photos, photo_id) ==
    LET hits == { i \in 1..Len(enriched_photos) :
                    enriched_photos[i].photo_id = photo_id }
    IN  IF hits = {} THEN None
        ELSE Some(enriched_photos[CHOOSE i \in hits : \A j \in hits : j <= i])

\* d[k] = v on a dict: a later write replaces an earlier one
DictSet(d, k, v) == (k :> v) @@ d

\* lines 60-64: the scores of one photo, session id -> <<temporal, semantic>>,
\* after the first k sessions
RECURSIVE session_scores(_, _, _, _)
session_scores(k, photo, enriched, m) ==
    IF k = 0 THEN <<>>
    ELSE DictSet(session_scores(k - 1, photo, enriched, m),
                 m.sessions[k].id,
                 << temporal_score(photo, m.sessions[k], m.sessions),
                    semantic_score(enriched, m.sessions[k], m.text_snippets) >>)

\* lines 56-65: photo id -> session id -> <<temporal, semantic>>, after the first
\* k photos
RECURSIVE build_photo_scores(_, _, _)
build_photo_scores(k, m, enriched_photos) ==
    IF k = 0 THEN <<>>
    ELSE DictSet(build_photo_scores(k - 1, m, enriched_photos),
                 m.photos[k].id,
                 session_scores(Len(m.sessions), m.photos[k],
                                enriched_get(enriched_photos, m.photos[k].id), m))

\* a max() that keeps the last maximum instead of the first
best_session_id_last(scores, sessions, s) ==
    LET best == CHOOSE i \in 1..Len(sessions) :
                    /\ \A j \in 1..Len(sessions) :
                          RatLeq(combined(scores[sessions[j].id], s),
                                 combined(scores[sessions[i].id], s))
                    /\ \A j \in 1..Len(sessions) :
                          j > i => RatLess(combined(scores[sessions[j].id], s),
                                           combined(scores[sessions[i].id], s))
    IN  sessions[best].id

\* lines 74-77: max(scores, key=...) walks the keys in insertion order, which is the
\* order of first occurrence in the session list, and keeps the first maximum
best_session_id(scores, sessions, s) ==
    LET first == { i \in 1..Len(sessions) :
                     \A j \in 1..(i - 1) : sessions[j].id # sessions[i].id }
        best == CHOOSE i \in first :
                    /\ \A j \in first :
                          RatLeq(combined(scores[sessions[j].id], s),
                                 combined(scores[sessions[i].id], s))
                    /\ \A j \in first :
                          j < i => RatLess(combined(scores[sessions[j].id], s),
                                           combined(scores[sessions[i].id], s))
    IN  sessions[best].id

\* an assignment loop that overwrites a session's list instead of appending to it
RECURSIVE build_assignments_overwrite(_, _, _, _)
build_assignments_overwrite(k, m, scores, s) ==
    IF k = 0 THEN [sid \in { m.sessions[i].id : i \in 1..Len(m.sessions) } |-> <<>>]
    ELSE LET prev == build_assignments_overwrite(k - 1, m, scores, s)
             pid == m.photos[k].id
             best == best_session_id(scores[pid], m.sessions, s)
         IN  [prev EXCEPT ![best] = <<pid>>]

\* lines 67-79: session id -> photo ids, after the first k photos
RECURSIVE build_assignments(_, _, _, _)
build_assignments(k, m, scores, s) ==
    IF k = 0 THEN [sid \in { m.sessions[i].id : i \in 1..Len(m.sessions) } |-> <<>>]
    ELSE LET prev == build_assignments(k - 1, m, scores, s)
             pid == m.photos[k].id
             best == best_session_id(scores[pid], m.sessions, s)
         IN  [prev EXCEPT ![best] = Append(@, pid)]

\* lines 83-100: the ContentItem of the i-th session
build_item(i, m, scores, assignments, s) ==
    LET session == m.sessions[i]
        assigned == assignments[session.id]
        t_scores == [k \in 1..Len(assigned) |-> scores[assigned[k]][session.id][1]]
        s_scores == [k \in 1..Len(assigned) |-> scores[assigned[k]][session.id][2]]
        agg_temporal == IF t_scores # <<>> THEN mean(t_scores) ELSE Rat(5, 10)
        agg_semantic == IF s_scores # <<>> THEN mean(s_scores) ELSE Rat(5, 10)
    IN  ContentItem(
            [id |-> ItemIds[i],
             session_ref |-> session.id,
             heading |-> session.name,
             photo_ids |-> assigned,
             text_snippet_ref |-> find_text_snippet(session, m.text_snippets),
             temporal_confidence |-> Round4(agg_temporal),
             semantic_confidence |-> Round4(agg_semantic),
             needs_review |->
                 RatLess(combined(<<agg_temporal, agg_semantic>>, s),
                         s.match_confidence_threshold)])

\* _write_artifact: cache_dir / "content_plan.json"
write_artifact(c, items) == [c EXCEPT !.content_plan = Some(plan_dump_json(items))]

\* mutant of run() on an empty session list: a catch-all item takes every photo
Stage3bRunEmpty_catch_all ==
    /\ pc = "start"
    /\ manifest.sessions = <<>>
    /\ content_plan' =
         << ContentItem(
              [id |-> ItemIds[1],
               session_ref |-> SessionIds[1],
               heading |-> "Workshop",
               photo_ids |-> [k \in 1..Len(manifest.photos) |-> manifest.photos[k].id],
               text_snippet_ref |-> None,
               temporal_confidence |-> Rat(5, 10),
               semantic_confidence |-> Rat(5, 10),
               needs_review |-> TRUE]) >>
    /\ cache' = write_artifact(cache, content_plan')
    /\ pc' = "matched"
    /\ UNCHANGED <<settings, manifest, photo_set, photo_scores, page_plan,
                   item_kwargs, loaded_plan, call_frame,
                   project_dir, api_calls>>

\* run(), lines 50-54: no sessions
Stage3bRunEmpty ==
    /\ pc = "start"
    /\ manifest.sessions = <<>>
    /\ content_plan' = <<>>
    /\ cache' = write_artifact(cache, <<>>)
    /\ pc' = "matched"
    /\ UNCHANGED <<settings, manifest, photo_set, photo_scores, page_plan,
                   item_kwargs, loaded_plan, call_frame,
                   project_dir, api_calls>>

\* mutant of the item loop: the sessions are walked from the last to the first
build_items_reversed(m, scores, s) ==
    LET assignments == build_assignments(Len(m.photos), m, scores, s)
        n == Len(m.sessions)
    IN  [i \in 1..n |->
            [build_item(n + 1 - i, m, scores, assignments, s) EXCEPT !.id = ItemIds[i]]]

\* lines 81-100: one ContentItem per session
build_items(m, scores, s) ==
    LET assignments == build_assignments(Len(m.photos), m, scores, s)
    IN  [i \in 1..Len(m.sessions) |-> build_item(i, m, scores, assignments, s)]

\* run(), lines 56-116
Stage3bRun ==
    /\ pc = "start"
    /\ manifest.sessions # <<>>
    /\ photo_scores' = build_photo_scores(Len(manifest.photos), manifest, photo_set)
    /\ content_plan' = build_items(manifest, photo_scores', settings)
    /\ cache' = write_artifact(cache, content_plan')
    /\ pc' = "matched"
    /\ UNCHANGED <<settings, manifest, photo_set, page_plan, item_kwargs, loaded_plan,
                   call_frame,
                   project_dir, api_calls>>

-----------------------------------------------------------------------------
(* Stage 3b on its own: every bounded manifest, enrichment and configuration *)

EmptyCache ==
    [manifest |-> None, enriched_photos |-> None, content_plan |-> None,
     page_plan |-> None, analyses |-> [c \in Contents |-> None]]

DefaultMeta == [title |-> "Workshop", workshop_date |-> None, location |-> None]

MakeSettings(w, th, mpp, div) ==
    [temporal_weight |-> w[1], semantic_weight |-> w[2],
     match_confidence_threshold |-> th,
     max_photos_per_page |-> mpp, section_dividers |-> div]

\* the EnrichedPhotoSet stage 3a returns: the analysed photos, in manifest order
MakePhotoSet(n, kind) ==
    LET all == [i \in 1..n |-> <<PhotoIds[i], kind[i][2]>>]
        kept == SelectSeq(all, LAMBDA x : x[2] # None)
    IN  [i \in 1..Len(kept) |-> EnrichedPhoto(kept[i][1], kept[i][2][1])]

InitMatch ==
    /\ pc = "start"
    /\ \E sessions \in SessionLists, n \in 0..MaxPhotos, snippets \in SnippetLists :
         \E kind \in [1..n -> PhotoKinds] :
            /\ manifest = [meta |-> DefaultMeta,
                           sessions |-> sessions,
                           photos |-> [i \in 1..n |-> Photo(i, kind[i][1], "landscape")],
                           text_snippets |-> snippets]
            /\ photo_set = MakePhotoSet(n, kind)
    /\ \E w \in Weights, th \in Thresholds :
         settings = MakeSettings(w, th, 2, FALSE)
    /\ photo_scores = <<>>
    /\ content_plan = <<>>
    /\ page_plan = <<>>
    /\ cache = EmptyCache
    /\ item_kwargs = <<>>
    /\ loaded_plan = <<>>
    /\ call_frame = <<>>
    /\ project_dir = <<>>
    /\ api_calls = <<>>

NextMatch == Stage3bRunEmpty \/ Stage3bRun

SpecMatch == InitMatch /\ [][NextMatch]_vars

-----------------------------------------------------------------------------
(* Properties of the assignment engine (SpecMatch) *)

\* the contract of confidence fusion: round(tw * temporal + sw * semantic, 4)
Fuse(temporal, semantic, tw, sw) ==
    Round4(RatAdd(RatMul(tw, temporal), RatMul(sw, semantic)))

Matched == pc = "matched" /\ manifest.sessions # <<>>

\* the positions <<i, k>> at which photo id pid occurs in the plan
Occurrences(pid) ==
    { x \in (1..Len(content_plan)) \X (1..MaxPhotos) :
        /\ x[2] <= Len(content_plan[x[1]].photo_ids)
        /\ content_plan[x[1]].photo_ids[x[2]] = pid }

\* the position of photo id pid in the manifest's photo list
PhotoIndex(pid) == CHOOSE i \in 1..Len(manifest.photos) : manifest.photos[i].id = pid

\* C1: after run() on a non-empty session list the plan has exactly one item per
\* session, in session order; every photo id of the manifest occurs exactly once
\* in the photo_ids of exactly one item, no other id occurs, and each item lists
\* its photos in the order of the manifest's photo list.
C1_EveryPhotoAssignedOnce ==
    Matched =>
        /\ Len(content_plan) = Len(manifest.sessions)
        /\ \A i \in 1..Len(content_plan) :
              content_plan[i].session_ref = manifest.sessions[i].id
        /\ \A p \in 1..Len(manifest.photos) :
              Cardinality(Occurrences(manifest.photos[p].id)) = 1
        /\ \A i \in 1..Len(content_plan) :
              LET ids == content_plan[i].photo_ids
              IN  /\ \A k \in 1..Len(ids) :
                        \E p \in 1..Len(manifest.photos) : manifest.photos[p].id = ids[k]
                  /\ \A k, l \in 1..Len(ids) :
                        k < l => PhotoIndex(ids[k]) < PhotoIndex(ids[l])

\* C1 witness: two sessions, and one item received two photos
C1_Witness ==
    /\ Matched
    /\ Len(manifest.sessions) = 2
    /\ \E i \in 1..Len(content_plan) : Len(content_plan[i].photo_ids) = 2

\* the fused confidence of photo pid against the session of item i, from the score
\* matrix run() built
FusedOf(pid, i) ==
    Fuse(photo_scores[pid][manifest.sessions[i].id][1],
         photo_scores[pid][manifest.sessions[i].id][2],
         settings.temporal_weight, settings.semantic_weight)

\* C2: every photo sits in the item of a session whose fused confidence for it is
\* at least that of every other session, and strictly greater than that of every
\* session earlier in the session list (the first maximal session wins a tie).
C2_BestSessionFirstOnTie ==
    Matched =>
        \A i \in 1..Len(content_plan) :
            \A k \in 1..Len(content_plan[i].photo_ids) :
                LET pid == content_plan[i].photo_ids[k]
                IN  \A j \in 1..Len(manifest.sessions) :
                        /\ RatLeq(FusedOf(pid, j), FusedOf(pid, i))
                        /\ j < i => RatLess(FusedOf(pid, j), FusedOf(pid, i))

\* C2 witness: a photo whose maximal fused confidence is shared by two sessions went
\* to the first of them, and another photo went to the second session outright
C2_Witness ==
    /\ Matched
    /\ Len(manifest.sessions) = 2
    /\ \E k \in 1..Len(content_plan[1].photo_ids) :
          FusedOf(content_plan[1].photo_ids[k], 1) = FusedOf(content_plan[1].photo_ids[k], 2)
    /\ \E k \in 1..Len(content_plan[2].photo_ids) :
          RatLess(FusedOf(content_plan[2].photo_ids[k], 1),
                  FusedOf(content_plan[2].photo_ids[k], 2))

\* C3: needs_review of every produced item is true exactly when the item's own
\* combined_confidence is strictly below the configured review threshold.
C3_NeedsReviewIffCombinedBelowThreshold ==
    Matched =>
        \A i \in 1..Len(content_plan) :
            content_plan[i].needs_review
                = RatLess(combined_confidence(content_plan[i]),
                          settings.match_confidence_threshold)

\* C4: combined_confidence of every produced item is the fusion of its two
\* confidences under the configured weights.
C4_CombinedUsesConfiguredWeights ==
    Matched =>
        \A i \in 1..Len(content_plan) :
            combined_confidence(content_plan[i])
                = Fuse(content_plan[i].temporal_confidence,
                       content_plan[i].semantic_confidence,
                       settings.temporal_weight, settings.semantic_weight)

-----------------------------------------------------------------------------
(* The ContentItem model on its own: construction, serialization, loading *)

ConfidenceValues ==
    { Rat(0, 1), Rat(1, 1), Rat(9, 10), Rat(3333, 10000), Rat(123456, 1000000) }

\* keyword arguments without and with a caller-supplied combined_confidence
ItemKwargs ==
    LET base == { [id |-> "item_001", session_ref |-> "session_001",
                   heading |-> <<"O","G","S">>, photo_ids |-> <<"photo_001">>,
                   text_snippet_ref |-> None,
                   temporal_confidence |-> t, semantic_confidence |-> c,
                   needs_review |-> r] :
                  t \in ConfidenceValues, c \in ConfidenceValues, r \in BOOLEAN }
    IN  base \cup { k @@ [combined_confidence |-> Rat(99, 100)] : k \in base }

\* models/content_plan.py declares defaults for photo_ids and text_snippet_ref
SecondItemKwargs ==
    [id |-> "item_002", session_ref |-> "session_002", heading |-> <<"k","l">>,
     temporal_confidence |-> Rat(9, 10), semantic_confidence |-> Rat(5, 10),
     needs_review |-> FALSE]

\* the same records as a JSON document found in the cache
KwargsJson(kw) ==
    [items |-> [i \in 1..Len(kw) |->
        [f \in DOMAIN kw[i] |->
            IF f \in FloatFields THEN float_to_json(kw[i][f]) ELSE kw[i][f]]]]

InitItem ==
    /\ pc = "start"
    /\ \E k \in ItemKwargs : item_kwargs \in { <<k>>, <<k, SecondItemKwargs>> }
    /\ cache \in { EmptyCache,
                   [EmptyCache EXCEPT !.content_plan = Some(KwargsJson(item_kwargs))] }
    /\ settings = MakeSettings(<<Rat(6, 10), Rat(4, 10)>>, Rat(65, 100), 2, FALSE)
    /\ manifest = [meta |-> DefaultMeta, sessions |-> <<>>, photos |-> <<>>,
                   text_snippets |-> <<>>]
    /\ photo_set = <<>>
    /\ photo_scores = <<>>
    /\ content_plan = <<>>
    /\ page_plan = <<>>
    /\ loaded_plan = <<>>
    /\ call_frame = <<>>
    /\ project_dir = <<>>
    /\ api_calls = <<>>

\* ContentPlan(items=[ContentItem(**kwargs), ...])
ConstructPlan ==
    /\ pc = "start"
    /\ cache.content_plan = None
    /\ content_plan' = [i \in 1..Len(item_kwargs) |-> ContentItem(item_kwargs[i])]
    /\ pc' = "constructed"
    /\ UNCHANGED <<settings, manifest, photo_set, photo_scores, page_plan, cache,
                   item_kwargs, loaded_plan, call_frame,
                   project_dir, api_calls>>

\* plan.model_dump_json() written to content_plan.json
DumpPlan ==
    /\ pc = "constructed"
    /\ cache' = write_artifact(cache, content_plan)
    /\ pc' = "dumped"
    /\ UNCHANGED <<settings, manifest, photo_set, photo_scores, content_plan,
                   page_plan, item_kwargs, loaded_plan, call_frame,
                   project_dir, api_calls>>

\* run_pipeline._load_json(cache / "content_plan.json", ContentPlan): after a dump
\* of this run, or of a document that was in the cache from the start
LoadPlan ==
    /\ pc \in {"start", "dumped"}
    /\ cache.content_plan # None
    /\ loaded_plan' = plan_validate_json(cache.content_plan[1])
    /\ pc' = IF pc = "dumped" THEN "reloaded" ELSE "loaded"
    /\ UNCHANGED <<settings, manifest, photo_set, photo_scores, content_plan,
                   page_plan, cache, item_kwargs, call_frame,
                   project_dir, api_calls>>

NextItem == ConstructPlan \/ DumpPlan \/ LoadPlan

SpecItem == InitItem /\ [][NextItem]_vars

\* C5: every ContentItem, constructed or loaded, has combined_confidence =
\* round(0.6 * temporal_confidence + 0.4 * semantic_confidence, 4), whatever
\* combined_confidence value the constructor arguments or the serialized record
\* carried; the serialized record carries that computed value; and a plan that was
\* serialized and loaded back equals the original plan.
C5_CombinedAlwaysDerived ==
    /\ \A i \in 1..Len(content_plan) :
          combined_confidence(content_plan[i])
              = Fuse(content_plan[i].temporal_confidence,
                     content_plan[i].semantic_confidence, Rat(6, 10), Rat(4, 10))
    /\ \A i \in 1..Len(loaded_plan) :
          /\ combined_confidence(loaded_plan[i])
                = Fuse(loaded_plan[i].temporal_confidence,
                       loaded_plan[i].semantic_confidence, Rat(6, 10), Rat(4, 10))
          /\ DOMAIN loaded_plan[i] = ContentItemFields
          /\ loaded_plan[i].temporal_confidence = item_kwargs[i].temporal_confidence
          /\ loaded_plan[i].semantic_confidence = item_kwargs[i].semantic_confidence
    /\ pc \in {"dumped", "reloaded"} =>
          \A i \in 1..Len(content_plan) :
              cache.content_plan[1].items[i].combined_confidence
                  = float_to_json(Fuse(item_kwargs[i].temporal_confidence,
                                       item_kwargs[i].semantic_confidence,
                                       Rat(6, 10), Rat(4, 10)))
    /\ pc = "reloaded" => loaded_plan = content_plan

\* C5 witness: a plan built with a supplied combined_confidence that differs from
\* the derived value was serialized and loaded back
C5_Witness ==
    /\ pc = "reloaded"
    /\ "combined_confidence" \in DOMAIN item_kwargs[1]
    /\ item_kwargs[1].combined_confidence # combined_confidence(content_plan[1])
    /\ Len(loaded_plan) = 2

-----------------------------------------------------------------------------
(* models/page_plan.py *)

PhotoSlot(photo_id, caption, display_size) ==
    [photo_id |-> photo_id, caption |-> caption, display_size |-> display_size,
     subtitle |-> ""]

TextBlock(content, role, style_ref) ==
    [content |-> content, role |-> role, style_ref |-> style_ref]

Page(page_number, page_type, layout_variant, content_item_ref, photo_slots, text_blocks) ==
    [page_number |-> page_number, page_type |-> page_type,
     layout_variant |-> layout_variant, content_item_ref |-> content_item_ref,
     page_heading |-> None, photo_slots |-> photo_slots, text_blocks |-> text_blocks]

-----------------------------------------------------------------------------
(* pipeline/stage4_layout.py *)

DE_MONTHS ==
    <<"Januar", "Februar", "März", "April", "Mai", "Juni",
      "Juli", "August", "September", "Oktober", "November", "Dezember">>

\* f"{d.day}. {_DE_MONTHS[d.month]} {d.year}"
format_date_de(d) ==
    ToString(d.day) \o ". " \o DE_MONTHS[d.month] \o " " \o ToString(d.year)

\* mutant of _make_cover: tests the location against None instead of truthiness
make_cover_location_not_none(page_number, m) ==
    LET meta == m.meta
        heading == << TextBlock(meta.title, "heading", "heading") >>
        date == IF meta.workshop_date # None
                THEN << TextBlock(format_date_de(meta.workshop_date[1]), "body", "body") >>
                ELSE <<>>
        location == IF meta.location # None
                    THEN << TextBlock(meta.location[1], "body", "body") >>
                    ELSE <<>>
    IN  Page(page_number, "cover", "text-only", None, <<>>, heading \o date \o location)

make_cover(page_number, m) ==
    LET meta == m.meta
        heading == << TextBlock(meta.title, "heading", "heading") >>
        date == IF meta.workshop_date # None
                THEN << TextBlock(format_date_de(meta.workshop_date[1]), "body", "body") >>
                ELSE <<>>
        location == IF meta.location # None /\ meta.location[1] # ""
                    THEN << TextBlock(meta.location[1], "body", "body") >>
                    ELSE <<>>
    IN  Page(page_number, "cover", "text-only", None, <<>>, heading \o date \o location)

make_section_divider(page_number, item) ==
    Page(page_number, "section_divider", "text-only", Some(item.id), <<>>,
         << TextBlock(item.heading, "heading", "heading") >>)

\* {p.id: p.orientation for p in manifest.photos}: the orientation of the last photo
\* with that id, or None when the id is not in the manifest
orientation_get(photos, photo_id) ==
    LET hits == { i \in 1..Len(photos) : photos[i].id = photo_id }
    IN  IF hits = {} THEN None
        ELSE Some(photos[CHOOSE i \in hits : \A j \in hits : j <= i].orientation)

\* an orientation lookup that lets the crop box override the manifest
photo_orientation_crop_first(photo_id, enriched_photos, photos) ==
    LET o == orientation_get(photos, photo_id)
        enriched == enriched_get(enriched_photos, photo_id)
    IN  IF enriched # None /\ enriched[1].crop_box # None
           /\ LET cb == enriched[1].crop_box[1]
              IN  (cb.y_max - cb.y_min) > (cb.x_max - cb.x_min)
        THEN "portrait"
        ELSE IF o # None THEN o[1] ELSE "landscape"

photo_orientation(photo_id, enriched_photos, photos) ==
    LET o == orientation_get(photos, photo_id)
        enriched == enriched_get(enriched_photos, photo_id)
    IN  IF o # None THEN o[1]
        ELSE IF enriched # None /\ enriched[1].crop_box # None
                /\ LET cb == enriched[1].crop_box[1]
                   IN  (cb.y_max - cb.y_min) > (cb.x_max - cb.x_min)
             THEN "portrait"
             ELSE "landscape"

\* the sizing the module docstring (lines 7-12) describes: two landscape photos, or
\* a mixed pair, are half-width
make_photo_slot_docstring(photo_id, batch_size, enriched_photos, photos) ==
    LET enriched == enriched_get(enriched_photos, photo_id)
        caption == IF enriched # None THEN enriched[1].description ELSE <<>>
        orientation == photo_orientation(photo_id, enriched_photos, photos)
        display_size ==
            IF batch_size = 1
            THEN (IF orientation = "landscape" THEN "full-width" ELSE "portrait-pair")
            ELSE (IF orientation = "portrait" THEN "portrait-pair" ELSE "half-width")
    IN  PhotoSlot(photo_id, caption, display_size)

make_photo_slot(photo_id, batch_size, enriched_photos, photos) ==
    LET enriched == enriched_get(enriched_photos, photo_id)
        caption == IF enriched # None THEN enriched[1].description ELSE <<>>
        orientation == photo_orientation(photo_id, enriched_photos, photos)
        display_size ==
            IF batch_size = 1
            THEN (IF orientation = "landscape" THEN "full-width" ELSE "portrait-pair")
            ELSE (IF orientation = "portrait" THEN "portrait-pair" ELSE "full-width")
    IN  PhotoSlot(photo_id, caption, display_size)

pick_layout_variant(slots) == IF Len(slots) = 1 THEN "1-photo" ELSE "2-photo"

\* a batching that drops a last batch smaller than max_per_page
batches_of_full_only(photo_ids, max_per_page) ==
    LET count == Len(photo_ids) \div max_per_page
    IN  [b \in 1..count |->
            SubSeq(photo_ids, (b - 1) * max_per_page + 1, b * max_per_page)]

\* lines 171-174: photo_ids[i:i + max_per_page] for i in range(0, len, max_per_page)
batches_of(photo_ids, max_per_page) ==
    LET n == Len(photo_ids)
        count == (n + max_per_page - 1) \div max_per_page
    IN  [b \in 1..count |->
            SubSeq(photo_ids, (b - 1) * max_per_page + 1,
                   Min2(b * max_per_page, n))]

\* a page loop that puts the heading on every page of the item
RECURSIVE batch_pages_heading_on_all(_, _, _, _, _, _)
batch_pages_heading_on_all(k, page_number, batches, item, enriched_photos, photos) ==
    IF k > Len(batches) THEN <<>>
    ELSE LET batch == batches[k]
             slots == [i \in 1..Len(batch) |->
                          make_photo_slot(batch[i], Len(batch), enriched_photos, photos)]
         IN  << Page(page_number, "content", pick_layout_variant(slots), Some(item.id),
                     slots, << TextBlock(item.heading, "heading", "heading") >>) >>
             \o batch_pages_heading_on_all(k + 1, page_number + 1, batches, item,
                                           enriched_photos, photos)

\* lines 176-198: the pages of the batches from index k on, numbered from page_number
RECURSIVE batch_pages(_, _, _, _, _, _)
batch_pages(k, page_number, batches, item, enriched_photos, photos) ==
    IF k > Len(batches) THEN <<>>
    ELSE LET batch == batches[k]
             is_first == k = 1
             text_blocks == IF is_first
                            THEN << TextBlock(item.heading, "heading", "heading") >>
                            ELSE <<>>
             slots == [i \in 1..Len(batch) |->
                          make_photo_slot(batch[i], Len(batch), enriched_photos, photos)]
             variant == pick_layout_variant(slots)
         IN  << Page(page_number, "content", variant, Some(item.id), slots, text_blocks) >>
             \o batch_pages(k + 1, page_number + 1, batches, item, enriched_photos, photos)

\* a planner without the branch for an item without photos
make_content_pages_no_empty_branch(start_page, item, enriched_photos, photos, max_per_page) ==
    batch_pages(1, start_page, batches_of(item.photo_ids, max_per_page),
                item, enriched_photos, photos)

make_content_pages(start_page, item, enriched_photos, photos, max_per_page) ==
    IF item.photo_ids = <<>>
    THEN << Page(start_page, "content", "text-only", Some(item.id), <<>>,
                 << TextBlock(item.heading, "heading", "heading") >>) >>
    ELSE batch_pages(1, start_page, batches_of(item.photo_ids, max_per_page),
                     item, enriched_photos, photos)

\* an item loop that does not advance page_number past the section divider
RECURSIVE layout_items_divider_not_counted(_, _, _, _, _, _)
layout_items_divider_not_counted(k, st, items, s, enriched_photos, photos) ==
    IF k > Len(items) THEN st
    ELSE LET item == items[k]
             divided ==
                 IF s.section_dividers
                 THEN [pages |-> Append(st.pages,
                                        make_section_divider(st.page_number, item)),
                       page_number |-> st.page_number]
                 ELSE st
             content_pages ==
                 make_content_pages(divided.page_number, item, enriched_photos, photos,
                                    s.max_photos_per_page)
         IN  layout_items_divider_not_counted(
                 k + 1,
                 [pages |-> divided.pages \o content_pages,
                  page_number |-> divided.page_number + Len(content_pages)],
                 items, s, enriched_photos, photos)

\* an item loop that gives no section divider to an item without photos
RECURSIVE layout_items_no_divider_for_empty(_, _, _, _, _, _)
layout_items_no_divider_for_empty(k, st, items, s, enriched_photos, photos) ==
    IF k > Len(items) THEN st
    ELSE LET item == items[k]
             divided ==
                 IF s.section_dividers /\ item.photo_ids # <<>>
                 THEN [pages |-> Append(st.pages,
                                        make_section_divider(st.page_number, item)),
                       page_number |-> st.page_number + 1]
                 ELSE st
             content_pages ==
                 make_content_pages(divided.page_number, item, enriched_photos, photos,
                                    s.max_photos_per_page)
         IN  layout_items_no_divider_for_empty(
                 k + 1,
                 [pages |-> divided.pages \o content_pages,
                  page_number |-> divided.page_number + Len(content_pages)],
                 items, s, enriched_photos, photos)

\* run(), lines 67-80: the loop over the items from index k on; st holds the loop's
\* variables pages and page_number
RECURSIVE layout_items(_, _, _, _, _, _)
layout_items(k, st, items, s, enriched_photos, photos) ==
    IF k > Len(items) THEN st
    ELSE LET item == items[k]
             divided ==
                 IF s.section_dividers
                 THEN [pages |-> Append(st.pages,
                                        make_section_divider(st.page_number, item)),
                       page_number |-> st.page_number + 1]
                 ELSE st
             content_pages ==
                 make_content_pages(divided.page_number, item, enriched_photos, photos,
                                    s.max_photos_per_page)
         IN  layout_items(k + 1,
                          [pages |-> divided.pages \o content_pages,
                           page_number |-> divided.page_number + Len(content_pages)],
                          items, s, enriched_photos, photos)

\* PagePlan.model_dump_json(), written to page_plan.json
page_plan_dump_json(pages) == [pages |-> pages]

\* run(), lines 55-92
Stage4Run ==
    /\ pc = "planned"
    /\ LET cover == make_cover(1, manifest)
           st == layout_items(1, [pages |-> <<cover>>, page_number |-> 1 + 1],
                              content_plan, settings, photo_set, manifest.photos)
       IN  page_plan' = st.pages
    /\ cache' = [cache EXCEPT !.page_plan = Some(page_plan_dump_json(page_plan'))]
    /\ pc' = "laid_out"
    /\ UNCHANGED <<settings, manifest, photo_set, photo_scores, content_plan,
                   item_kwargs, loaded_plan, call_frame,
                   project_dir, api_calls>>

-----------------------------------------------------------------------------
(* Stage 4 on its own: every bounded content plan, manifest and configuration *)

\* CropBox coordinates in hundredths of the image dimensions
CropBox(x_min, y_min, x_max, y_max) ==
    [x_min |-> x_min, y_min |-> y_min, x_max |-> x_max, y_max |-> y_max]

AnalysisWithCrop(crop) ==
    [description |-> <<"o","g","s">>, ocr_text |-> None,
     topic_keywords |-> <<>>, crop_box |-> crop]

CropTall == Some(CropBox(10, 10, 50, 90))

CropWide == Some(CropBox(10, 20, 90, 80))

CropSquare == Some(CropBox(10, 10, 50, 50))

\* <<orientation in the manifest (None: the photo is not in the manifest),
\*   analysis (None: the photo is not in the enriched set)>>, laid out in a cycle
LayoutKindCycle ==
    << <<Some("portrait"), Some(AnalysisWithCrop(CropWide))>>,
       <<Some("portrait"), None>>,
       <<Some("landscape"), Some(AnalysisWithCrop(None))>>,
       <<Some("landscape"), Some(AnalysisWithCrop(CropTall))>>,
       <<Some("square"), Some(AnalysisWithCrop(None))>>,
       <<None, None>>,
       <<None, Some(AnalysisWithCrop(CropTall))>>,
       <<None, Some(AnalysisWithCrop(CropTall))>>,
       <<None, Some(AnalysisWithCrop(CropWide))>>,
       <<None, Some(AnalysisWithCrop(None))>>,
       <<None, Some(AnalysisWithCrop(CropSquare))>>,
       <<Some("square"), None>> >>

\* the kind of the j-th photo when the cycle is entered at offset off
LayoutKind(j, off) == LayoutKindCycle[((j - 1 + off) % Len(LayoutKindCycle)) + 1]

MetaKinds ==
    { [title |-> "Workshop", workshop_date |-> d, location |-> l] :
        d \in { None, Some([day |-> 9, month |-> 3, year |-> 2026]) },
        l \in { None, Some(""), Some("Berlin") } }

\* a content plan as stage 3b writes it: the photos 1..n spread over the items
MakeContentPlan(nItems, n, assign) ==
    [i \in 1..nItems |->
        ContentItem(
            [id |-> ItemIds[i], session_ref |-> SessionIds[i],
             heading |-> SessionNames[i],
             photo_ids |-> SelectSeq([j \in 1..n |-> PhotoIds[j]],
                                     LAMBDA pid : \E j \in 1..n :
                                         PhotoIds[j] = pid /\ assign[j] = i),
             temporal_confidence |-> Rat(8, 10),
             semantic_confidence |-> Rat(8, 10),
             needs_review |-> FALSE])]

\* the manifest photos among 1..n: those whose kind has an orientation
MakeLayoutPhotos(n, off) ==
    LET all == [j \in 1..n |-> <<j, LayoutKind(j, off)[1]>>]
        kept == SelectSeq(all, LAMBDA x : x[2] # None)
    IN  [i \in 1..Len(kept) |-> Photo(kept[i][1], None, kept[i][2][1])]

\* the enriched photos among 1..n: those whose kind has an analysis
MakeLayoutPhotoSet(n, off) ==
    LET all == [j \in 1..n |-> <<PhotoIds[j], LayoutKind(j, off)[2]>>]
        kept == SelectSeq(all, LAMBDA x : x[2] # None)
    IN  [i \in 1..Len(kept) |-> EnrichedPhoto(kept[i][1], kept[i][2][1])]

InitLayout ==
    /\ pc = "planned"
    /\ \E nItems \in 0..MaxItems, n \in 0..MaxLayoutPhotos,
          off \in 0..(Len(LayoutKindCycle) - 1), meta \in MetaKinds :
         \E assign \in [1..n -> 1..nItems] :
            /\ content_plan = MakeContentPlan(nItems, n, assign)
            /\ manifest = [meta |-> meta,
                           sessions |-> [i \in 1..nItems |->
                                            AgendaSession(i, <<None, None>>)],
                           photos |-> MakeLayoutPhotos(n, off),
                           text_snippets |-> <<>>]
            /\ photo_set = MakeLayoutPhotoSet(n, off)
    /\ \E mpp \in 1..MaxPerPage, div \in BOOLEAN :
         settings = MakeSettings(<<Rat(6, 10), Rat(4, 10)>>, Rat(65, 100), mpp, div)
    /\ photo_scores = <<>>
    /\ page_plan = <<>>
    /\ cache = EmptyCache
    /\ item_kwargs = <<>>
    /\ loaded_plan = <<>>
    /\ call_frame = <<>>
    /\ project_dir = <<>>
    /\ api_calls = <<>>

NextLayout == Stage4Run

SpecLayout == InitLayout /\ [][NextLayout]_vars

-----------------------------------------------------------------------------
(* Properties of the page planner (SpecLayout) *)

LaidOut == pc = "laid_out"

\* the content pages of the plan that refer to item i, in plan order
ContentPagesOf(i) ==
    SelectSeq(page_plan,
              LAMBDA pg : pg.page_type = "content"
                          /\ pg.content_item_ref = Some(content_plan[i].id))

\* the heading text blocks of a page that hold the heading of item i
HeadingBlocks(pg, i) ==
    { b \in 1..Len(pg.text_blocks) :
        /\ pg.text_blocks[b].role = "heading"
        /\ pg.text_blocks[b].content = content_plan[i].heading }

\* C6: the pages carry the page numbers 1, 2, ..., N in list order.
C6_PageNumbersContiguous ==
    LaidOut => \A i \in 1..Len(page_plan) : page_plan[i].page_number = i

\* C6 witness: dividers are on, there are two items and one of them spans two content
\* pages
C6_Witness ==
    /\ LaidOut
    /\ settings.section_dividers
    /\ Len(content_plan) = 2
    /\ \E i \in 1..Len(content_plan) : Len(ContentPagesOf(i)) >= 2

RECURSIVE SlotIds(_)
\* the photo ids of the slots of a sequence of pages, page by page
SlotIds(pages) ==
    IF pages = <<>> THEN <<>>
    ELSE [k \in 1..Len(Head(pages).photo_slots) |-> Head(pages).photo_slots[k].photo_id]
         \o SlotIds(Tail(pages))

RECURSIVE AllPhotoIds(_)
\* the photo_ids lists of a sequence of items, item by item
AllPhotoIds(items) ==
    IF items = <<>> THEN <<>> ELSE Head(items).photo_ids \o AllPhotoIds(Tail(items))

\* C7: an item with n >= 1 photos gets exactly ceil(n / m) content pages for
\* m = max_photos_per_page; each of them but the last has m slots and the last has
\* between 1 and m; and the slots' photo ids, read page by page over the whole plan,
\* are the items' photo_ids lists in plan order.
C7_BatchesPartitionPhotos ==
    LaidOut =>
        /\ \A i \in 1..Len(content_plan) :
              LET n == Len(content_plan[i].photo_ids)
                  m == settings.max_photos_per_page
                  cp == ContentPagesOf(i)
              IN  n >= 1 =>
                    /\ (Len(cp) - 1) * m < n
                    /\ n <= Len(cp) * m
                    /\ \A k \in 1..(Len(cp) - 1) : Len(cp[k].photo_slots) = m
                    /\ Len(cp[Len(cp)].photo_slots) \in 1..m
                    /\ SlotIds(cp) = content_plan[i].photo_ids
        /\ SlotIds(page_plan) = AllPhotoIds(content_plan)

\* C7 witness: an item with three photos was laid out two per page
C7_Witness ==
    /\ LaidOut
    /\ settings.max_photos_per_page = 2
    /\ \E i \in 1..Len(content_plan) :
          /\ Len(content_plan[i].photo_ids) = 3
          /\ Len(ContentPagesOf(i)) = 2

\* C8 as claimed: the heading block of an item is on the first content page of the
\* item and on no other page whose content_item_ref is that item.
C8_HeadingOnFirstContentPageOnly ==
    LaidOut =>
        \A i \in 1..Len(content_plan) :
            \A p \in 1..Len(page_plan) :
                page_plan[p].content_item_ref = Some(content_plan[i].id) =>
                    IF page_plan[p] = ContentPagesOf(i)[1]
                    THEN Cardinality(HeadingBlocks(page_plan[p], i)) = 1
                    ELSE HeadingBlocks(page_plan[p], i) = {}

\* C8 as amended: the heading block of an item is on the first content page of the
\* item and on no other content page of the item; the only other page of the item
\* that carries it is the item's section divider, which exists exactly when section
\* dividers are enabled.
C8_HeadingOnFirstContentPageAndDivider ==
    LaidOut =>
        \A i \in 1..Len(content_plan) :
            \A p \in 1..Len(page_plan) :
                page_plan[p].content_item_ref = Some(content_plan[i].id) =>
                    IF page_plan[p] = ContentPagesOf(i)[1]
                    THEN Cardinality(HeadingBlocks(page_plan[p], i)) = 1
                    ELSE IF page_plan[p].page_type = "content"
                    THEN page_plan[p].text_blocks = <<>>
                    ELSE /\ page_plan[p].page_type = "section_divider"
                         /\ settings.section_dividers
                         /\ Cardinality(HeadingBlocks(page_plan[p], i)) = 1

\* C8 witness: dividers are on and an item spans two content pages
C8_Witness ==
    /\ LaidOut
    /\ settings.section_dividers
    /\ \E i \in 1..Len(content_plan) : Len(ContentPagesOf(i)) >= 2

\* C9: an item without photos gets exactly one content page; it is text-only, has
\* no photo slots and exactly one text block, a heading with the item's heading.
C9_EmptyItemOneTextOnlyPage ==
    LaidOut =>
        \A i \in 1..Len(content_plan) :
            content_plan[i].photo_ids = <<>> =>
                LET cp == ContentPagesOf(i)
                IN  /\ Len(cp) = 1
                    /\ cp[1].layout_variant = "text-only"
                    /\ cp[1].photo_slots = <<>>
                    /\ cp[1].text_blocks
                          = << TextBlock(content_plan[i].heading, "heading", "heading") >>

\* C9 witness: a plan with an item without photos next to an item with photos
C9_Witness ==
    /\ LaidOut
    /\ \E i, j \in 1..Len(content_plan) :
          content_plan[i].photo_ids = <<>> /\ content_plan[j].photo_ids # <<>>

\* C10: a content page with exactly one photo slot is a 1-photo page, and its slot
\* is full-width when the photo's resolved orientation is landscape or square and
\* portrait-pair when it is portrait.
C10_SinglePhotoPageSizing ==
    LaidOut =>
        \A p \in 1..Len(page_plan) :
            (page_plan[p].page_type = "content" /\ Len(page_plan[p].photo_slots) = 1) =>
                LET slot == page_plan[p].photo_slots[1]
                    o == photo_orientation(slot.photo_id, photo_set, manifest.photos)
                IN  /\ page_plan[p].layout_variant = "1-photo"
                    /\ slot.display_size
                          = IF o = "portrait" THEN "portrait-pair" ELSE "full-width"

ResolvedOrientation(pid) ==
    LET inManifest == { i \in 1..Len(manifest.photos) : manifest.photos[i].id = pid }
        inEnriched == { i \in 1..Len(photo_set) : photo_set[i].photo_id = pid }
    IN  IF inManifest # {}
        THEN manifest.photos[CHOOSE i \in inManifest : TRUE].orientation
        ELSE IF \E i \in inEnriched :
                    /\ photo_set[i].crop_box # None
                    /\ photo_set[i].crop_box[1].y_max - photo_set[i].crop_box[1].y_min
                         > photo_set[i].crop_box[1].x_max - photo_set[i].crop_box[1].x_min
             THEN "portrait"
             ELSE "landscape"

\* C12: the orientation used for every photo id is the manifest's orientation when
\* the id is in the manifest, whatever its crop box; otherwise portrait when its
\* enrichment has a crop box taller than wide; otherwise landscape.  Every slot of
\* the plan is sized from that orientation.
C12_OrientationPriority ==
    LaidOut =>
        /\ \A j \in 1..Len(PhotoIds) :
              photo_orientation(PhotoIds[j], photo_set, manifest.photos)
                  = ResolvedOrientation(PhotoIds[j])
        /\ \A p \in 1..Len(page_plan) :
              \A k \in 1..Len(page_plan[p].photo_slots) :
                  LET slot == page_plan[p].photo_slots[k]
                      o == ResolvedOrientation(slot.photo_id)
                  IN  slot.display_size
                        = IF Len(page_plan[p].photo_slots) = 1
                          THEN (IF o = "landscape" THEN "full-width" ELSE "portrait-pair")
                          ELSE (IF o = "portrait" THEN "portrait-pair" ELSE "full-width")

\* C12 witness: a slot whose photo is landscape in the manifest but has a crop box
\* taller than wide, and a slot whose photo is not in the manifest
C12_Witness ==
    /\ LaidOut
    /\ \E p, q \in 1..Len(page_plan) :
          /\ \E k \in 1..Len(page_plan[p].photo_slots) :
                LET pid == page_plan[p].photo_slots[k].photo_id
                IN  /\ orientation_get(manifest.photos, pid) = Some("landscape")
                    /\ enriched_get(photo_set, pid) # None
                    /\ enriched_get(photo_set, pid)[1].crop_box = CropTall
          /\ \E k \in 1..Len(page_plan[q].photo_slots) :
                orientation_get(manifest.photos, page_plan[q].photo_slots[k].photo_id)
                    = None

\* the positions of the section_divider pages of the plan that refer to item i
DividersOf(i) ==
    { p \in 1..Len(page_plan) :
        /\ page_plan[p].page_type = "section_divider"
        /\ page_plan[p].content_item_ref = Some(content_plan[i].id) }

\* C13: with section_dividers enabled every item, also one without photos, has
\* exactly one section_divider page; it is the page right before the item's first
\* content page, has no photo slots and exactly one text block, the item's heading;
\* every section_divider page of the plan belongs to an item.  With section_dividers
\* disabled the plan has no section_divider page.
C13_OneDividerPerItem ==
    LaidOut =>
        IF settings.section_dividers
        THEN /\ \A i \in 1..Len(content_plan) :
                   /\ Cardinality(DividersOf(i)) = 1
                   /\ \A p \in DividersOf(i) :
                         /\ p + 1 <= Len(page_plan)
                         /\ page_plan[p + 1] = ContentPagesOf(i)[1]
                         /\ page_plan[p].photo_slots = <<>>
                         /\ page_plan[p].text_blocks
                               = << TextBlock(content_plan[i].heading,
                                              "heading", "heading") >>
             /\ \A p \in 1..Len(page_plan) :
                   page_plan[p].page_type = "section_divider" =>
                       \E i \in 1..Len(content_plan) : p \in DividersOf(i)
        ELSE \A p \in 1..Len(page_plan) : page_plan[p].page_type # "section_divider"

\* C13 witness: dividers are on, and the plan has an item without photos and an item
\* with two content pages
C13_Witness ==
    /\ LaidOut
    /\ settings.section_dividers
    /\ \E i, j \in 1..Len(content_plan) :
          /\ content_plan[i].photo_ids = <<>>
          /\ Len(ContentPagesOf(j)) >= 2

-----------------------------------------------------------------------------
(* Properties of the aggregate confidences (SpecMatch) *)

\* the photo of the manifest with id pid
PhotoOf(pid) == manifest.photos[PhotoIndex(pid)]

\* C14: the item of a session with zero assigned photos has temporal_confidence =
\* semantic_confidence = 0.5 and needs_review = false.
C14_ZeroPhotoSessionNotFlagged ==
    Matched =>
        \A i \in 1..Len(content_plan) :
            content_plan[i].photo_ids = <<>> =>
                /\ content_plan[i].temporal_confidence = Rat(5, 10)
                /\ content_plan[i].semantic_confidence = Rat(5, 10)
                /\ content_plan[i].needs_review = FALSE

\* C15: for every item with at least one photo, temporal_confidence and
\* semantic_confidence are the means, rounded to 4 decimals, of the temporal and
\* semantic scores of its photos against the item's own session, and lie in [0,1];
\* when the manifest has no photos every item has empty photo_ids and 0.5 for both.
C15_ConfidencesAreMeans ==
    Matched =>
        /\ \A i \in 1..Len(content_plan) :
              LET ids == content_plan[i].photo_ids
                  session == manifest.sessions[i]
                  t == [k \in 1..Len(ids) |->
                           temporal_score(PhotoOf(ids[k]), session, manifest.sessions)]
                  c == [k \in 1..Len(ids) |->
                           semantic_score(enriched_get(photo_set, ids[k]), session,
                                          manifest.text_snippets)]
              IN  ids # <<>> =>
                    /\ content_plan[i].temporal_confidence
                          = Round4(Rat(SumRat(t).n, SumRat(t).d * Len(ids)))
                    /\ content_plan[i].semantic_confidence
                          = Round4(Rat(SumRat(c).n, SumRat(c).d * Len(ids)))
                    /\ RatLeq(Rat(0, 1), content_plan[i].temporal_confidence)
                    /\ RatLeq(content_plan[i].temporal_confidence, Rat(1, 1))
                    /\ RatLeq(Rat(0, 1), content_plan[i].semantic_confidence)
                    /\ RatLeq(content_plan[i].semantic_confidence, Rat(1, 1))
        /\ manifest.photos = <<>> =>
              \A i \in 1..Len(content_plan) :
                  /\ content_plan[i].photo_ids = <<>>
                  /\ content_plan[i].temporal_confidence = Rat(5, 10)
                  /\ content_plan[i].semantic_confidence = Rat(5, 10)

\* C15 witness: an item with two photos whose temporal scores differ and whose
\* semantic scores differ
C15_Witness ==
    /\ Matched
    /\ \E i \in 1..Len(content_plan) :
          LET ids == content_plan[i].photo_ids
              sid == manifest.sessions[i].id
          IN  /\ Len(ids) = 2
              /\ photo_scores[ids[1]][sid][1] # photo_scores[ids[2]][sid][1]
              /\ photo_scores[ids[1]][sid][2] # photo_scores[ids[2]][sid][2]

-----------------------------------------------------------------------------
(* The temporal scorer on its own: calls of _temporal_score as run() makes them, *)
(* one photo against one session of the manifest's session list                 *)

\* <<start_time, end_time>> of the sessions of an agenda, laid out in a cycle
TemporalTimesCycle ==
    << <<Some(Time(9, 0, 0)), None>>,
       <<None, None>>,
       <<Some(Time(23, 0, 0)), None>>,
       <<Some(Time(9, 0, 0)), Some(Time(10, 0, 0))>>,
       <<Some(Time(9, 0, 0)), None>>,
       <<Some(Time(10, 0, 0)), None>>,
       <<Some(Time(13, 0, 0)), Some(Time(14, 0, 0))>>,
       <<None, None>>,
       <<None, None>> >>

\* the session list of n sessions that enters the cycle at offset off
TemporalSessions(n, off) ==
    [i \in 1..n |->
        AgendaSession(i, TemporalTimesCycle[((i - 1 + off) % Len(TemporalTimesCycle)) + 1])]

\* times of day of the photos: around the boundaries of the windows above, to the
\* second
PhotoTimes ==
    { Time(8, 29, 59), Time(8, 30, 0), Time(8, 30, 30), Time(8, 31, 0), Time(8, 45, 0),
      Time(8, 59, 0), Time(8, 59, 30), Time(9, 0, 0), Time(9, 30, 0), Time(10, 0, 0),
      Time(10, 0, 30), Time(10, 1, 0), Time(10, 15, 0), Time(10, 29, 59),
      Time(10, 30, 0), Time(10, 31, 0), Time(12, 0, 0), Time(23, 59, 30) }

\* timestamps that show a clock time of PhotoTimes on another day or with another
\* UTC offset
ShiftedStamps ==
    { Datetime(2, Time(10, 15, 0)), DatetimeTz(1, Time(10, 15, 0), 120),
      DatetimeTz(2, Time(9, 0, 0), -300), DatetimeTz(1, Time(8, 45, 0), 60) }

\* the photos handed to the scorer: with a file time only, with an EXIF time that
\* differs from the file time, with no timestamp at all (a Photo whose timestamps
\* were both cleared, as TestTemporalScore builds it with model_copy), and with
\* a shifted timestamp
TemporalPhotos ==
    { [id |-> PhotoIds[1], timestamp_exif |-> None,
       timestamp_file |-> Some(Datetime(1, t)), orientation |-> "landscape"] :
        t \in PhotoTimes }
    \cup { Photo(1, Some(Datetime(1, Time(9, 30, 0))), "landscape"),
           [id |-> PhotoIds[1], timestamp_exif |-> None, timestamp_file |-> None,
            orientation |-> "landscape"] }
    \cup { [id |-> PhotoIds[1], timestamp_exif |-> None,
             timestamp_file |-> Some(ts), orientation |-> "landscape"] :
            ts \in ShiftedStamps }

InitTemporal ==
    /\ pc = "scoring"
    /\ \E n \in 1..(MaxSessions + 1), off \in 0..(Len(TemporalTimesCycle) - 1) :
         manifest = [meta |-> DefaultMeta, sessions |-> TemporalSessions(n, off),
                     photos |-> <<>>, text_snippets |-> <<>>]
    /\ settings = MakeSettings(<<Rat(6, 10), Rat(4, 10)>>, Rat(65, 100), 2, FALSE)
    /\ photo_set = <<>>
    /\ photo_scores = <<>>
    /\ content_plan = <<>>
    /\ page_plan = <<>>
    /\ cache = EmptyCache
    /\ item_kwargs = <<>>
    /\ loaded_plan = <<>>
    /\ call_frame = <<>>
    /\ project_dir = <<>>
    /\ api_calls = <<>>

\* stage3b_match.py line 62: _temporal_score(photo, session, sessions)
TemporalScoreCall ==
    /\ pc = "scoring"
    /\ \E photo \in TemporalPhotos, i \in 1..Len(manifest.sessions) :
         call_frame' = temporal_call(photo, i, manifest.sessions)
    /\ UNCHANGED <<pc, settings, manifest, photo_set, photo_scores, content_plan,
                   page_plan, cache, item_kwargs, loaded_plan,
                   project_dir, api_calls>>

NextTemporal == TemporalScoreCall

SpecTemporal == InitTemporal /\ [][NextTemporal]_vars

-----------------------------------------------------------------------------
(* Properties of the temporal scorer (SpecTemporal) *)

\* a call of the temporal scorer has returned
TemporalCalled == call_frame # <<>>

\* the time of day of the photo of call f
PhotoTimeOf(f) ==
    IF f.photo.timestamp_exif # None THEN f.photo.timestamp_exif[1].tod
    ELSE f.photo.timestamp_file[1].tod

\* the distance in clock minutes (hour * 60 + minute) from t to the nearer boundary
\* of the window, 0 when the clock minute of t is one of the window's
BoundaryMinutes(t, start, end) ==
    LET tm == t \div 60
        sm == start \div 60
        em == end \div 60
    IN  IF sm <= tm /\ tm <= em THEN 0
        ELSE IF Abs(tm - sm) <= Abs(tm - em) THEN Abs(tm - sm) ELSE Abs(tm - em)

\* the distance in seconds from t to the nearer boundary of the window
BoundarySeconds(t, start, end) ==
    IF Abs(t - start) <= Abs(t - end) THEN Abs(t - start) ELSE Abs(t - end)

InWindow(t, start, end) == start <= t /\ t <= end

\* the state part of C16, for the call f
DecayLaw(f) ==
    (f.end # None) =>
        LET t == PhotoTimeOf(f)
            start == f.session.start_time[1]
            end == f.end[1]
            d == BoundaryMinutes(t, start, end)
        IN  /\ InWindow(t, start, end) => f.result = Rat(1, 1)
            /\ ~InWindow(t, start, end) =>
                  /\ f.result = (IF d >= 30 THEN Rat(0, 1) ELSE Rat(30 - d, 30))
                  /\ BoundarySeconds(t, start, end) >= 60 => RatLess(f.result, Rat(1, 1))
                  /\ BoundarySeconds(t, start, end) >= 30 * 60 => f.result = Rat(0, 1)
            /\ RatLeq(Rat(0, 1), f.result)
            /\ RatLeq(f.result, Rat(1, 1))

\* the step part of C16: of two calls for the same session with both photos outside
\* the window, the one that is not nearer to the window does not score higher
DecayMonotone ==
    (/\ call_frame # <<>>
     /\ call_frame' # <<>>
     /\ call_frame.end # None
     /\ call_frame'.end # None
     /\ call_frame'.session = call_frame.session
     /\ ~InWindow(PhotoTimeOf(call_frame), call_frame.session.start_time[1],
                  call_frame.end[1])
     /\ ~InWindow(PhotoTimeOf(call_frame'), call_frame.session.start_time[1],
                  call_frame.end[1])
     /\ BoundaryMinutes(PhotoTimeOf(call_frame), call_frame.session.start_time[1],
                        call_frame.end[1])
          <= BoundaryMinutes(PhotoTimeOf(call_frame'), call_frame.session.start_time[1],
                             call_frame.end[1]))
    => RatLeq(call_frame'.result, call_frame.result)

\* C16: for a photo with a timestamp and a session with a start time and the
\* effective window [start, end], the temporal score is 1.0 when the photo's time of
\* day is in the window, bounds included; otherwise it is max(0, 1 - d/30) for the
\* distance d in minutes to the nearer boundary, so it is below 1.0 once the photo
\* is a minute or more outside, 0.0 from 30 minutes on, never larger for a larger d,
\* and always in [0,1].
C16_TemporalDecay ==
    /\ [](TemporalCalled => DecayLaw(call_frame))
    /\ [][DecayMonotone]_vars

\* C16 witness: a photo 15 minutes past the end of the window 09:00-10:00 scored 0.5
C16_Witness ==
    /\ TemporalCalled
    /\ call_frame.end = Some(Time(10, 0, 0))
    /\ call_frame.session.start_time = Some(Time(9, 0, 0))
    /\ PhotoTimeOf(call_frame) = Time(10, 15, 0)
    /\ call_frame.result = Rat(1, 2)

\* the sessions of the list that come later than session by order and have a start
LaterTimed(session, all_sessions) ==
    { i \in 1..Len(all_sessions) :
        all_sessions[i].order > session.order /\ all_sessions[i].start_time # None }

\* the end of the effective window as the rule gives it, in seconds of the day
WindowEnd(session, all_sessions) ==
    LET later == LaterTimed(session, all_sessions)
        plus90 == session.start_time[1] + 90 * 60
    IN  IF session.end_time # None THEN session.end_time[1]
        ELSE IF later # {}
        THEN all_sessions[CHOOSE i \in later :
                              \A j \in later :
                                  all_sessions[i].order <= all_sessions[j].order
                         ].start_time[1]
        ELSE IF plus90 > Time(23, 59, 0) THEN Time(23, 59, 0) ELSE plus90

\* C17: the end of a session's effective window is its own end time when it has one;
\* otherwise the start time of the session with the smallest order above its own
\* among the sessions with a start time, when there is one; otherwise start + 90
\* minutes, capped at 23:59.
C17_EffectiveWindowEnd ==
    (TemporalCalled /\ call_frame.end # None) =>
        /\ call_frame.end[1] = WindowEnd(call_frame.session, manifest.sessions)
        /\ call_frame.end[1] <= Time(23, 59, 0)

\* C17 witness: an open-ended session followed by a session without times and then
\* by the last session, which starts at 23:00, is open-ended and was scored with the
\* window end 23:59
C17_Witness ==
    /\ TemporalCalled
    /\ Len(manifest.sessions) = 3
    /\ manifest.sessions[1].start_time # None
    /\ manifest.sessions[1].end_time = None
    /\ manifest.sessions[2].start_time = None
    /\ call_frame.session = manifest.sessions[3]
    /\ call_frame.session.start_time = Some(Time(23, 0, 0))
    /\ call_frame.end = Some(Time(23, 59, 0))

\* C18: a photo with no timestamp scores 0.5 against every session; a photo with a
\* timestamp scores 0.5 against every session when no session of the list has a
\* start time, and 0.1 against a session without a start time when another session
\* of the list has one.
C18_TemporalMissingData ==
    TemporalCalled =>
        LET f == call_frame
            hasTimestamp ==
                f.photo.timestamp_exif # None \/ f.photo.timestamp_file # None
            anyStart ==
                \E i \in 1..Len(manifest.sessions) :
                    manifest.sessions[i].start_time # None
        IN  /\ ~hasTimestamp => f.result = Rat(5, 10)
            /\ (hasTimestamp /\ ~anyStart) => f.result = Rat(5, 10)
            /\ (hasTimestamp /\ anyStart /\ f.session.start_time = None) =>
                  f.result = Rat(1, 10)

\* C18 witness: a photo with a timestamp scored 0.1 against a session without times
\* whose sibling has a start time
C18_Witness ==
    /\ TemporalCalled
    /\ call_frame.photo.timestamp_file # None
    /\ call_frame.session.start_time = None
    /\ \E i \in 1..Len(manifest.sessions) : manifest.sessions[i].start_time # None
    /\ call_frame.result = Rat(1, 10)

-----------------------------------------------------------------------------
(* The semantic scorer and the tokenizer on their own: calls of _semantic_score *)
(* as run() makes them, and the calls of _tokenize they make                    *)

\* session names, laid out in a cycle
SemanticNamesCycle ==
    << <<"O","G","S">>,
       <<"K","L"," ","o","g","s">>,
       <<"t","s","1">>,
       <<"a"," ","b">>,
       <<>>,
       <<"k","l","_","o","g","s">>,
       <<"k","l",".","o","g","s","!">>,
       <<"Ä","ß"," ","1","o","g","s"," ","x">> >>

\* the session list of n sessions that enters the cycle at offset off
SemanticSessions(n, off) ==
    [i \in 1..n |->
        [id |-> SessionIds[i], order |-> i,
         name |-> SemanticNamesCycle[((i - 1 + off) % Len(SemanticNamesCycle)) + 1],
         start_time |-> None, end_time |-> None]]

\* a text of eleven tokens, one of them kl
ManyWords ==
    join(<< <<"a","b">>, <<"a","c">>, <<"a","g">>, <<"a","k">>, <<"a","l">>,
            <<"a","o">>, <<"a","s">>, <<"a","t">>, <<"a","x">>, <<"b","c">>,
            <<"k","l">> >>)

SemanticSnippetLists ==
    { <<>>,
      << [id |-> "text_001", content |-> <<"t","s">>] >>,
      << [id |-> "text_001", content |-> <<"o","g">>],
         [id |-> "text_002", content |-> <<"s","x">>] >>,
      << [id |-> "text_001", content |-> ManyWords] >> }

\* the enrichment handed to the scorer: None when stage 3a skipped the photo
SemanticEnriched ==
    { None,
      Some(EnrichedPhoto(PhotoIds[1], AnalysisA)),
      Some(EnrichedPhoto(PhotoIds[1], AnalysisB)),
      Some(EnrichedPhoto(PhotoIds[1],
               [description |-> <<>>, ocr_text |-> None, topic_keywords |-> <<>>,
                crop_box |-> None])),
      Some(EnrichedPhoto(PhotoIds[1],
               [description |-> <<"t","s">>, ocr_text |-> Some(<<"O","G","S",".">>),
                topic_keywords |-> << <<"k","l">>, <<"o","g">> >>,
                crop_box |-> None])) }

InitSemantic ==
    /\ pc = "scoring"
    /\ \E n \in 1..MaxSessions, off \in 0..(Len(SemanticNamesCycle) - 1),
          snippets \in SemanticSnippetLists :
         manifest = [meta |-> DefaultMeta, sessions |-> SemanticSessions(n, off),
                     photos |-> <<>>, text_snippets |-> snippets]
    /\ settings = MakeSettings(<<Rat(6, 10), Rat(4, 10)>>, Rat(65, 100), 2, FALSE)
    /\ photo_set = <<>>
    /\ photo_scores = <<>>
    /\ content_plan = <<>>
    /\ page_plan = <<>>
    /\ cache = EmptyCache
    /\ item_kwargs = <<>>
    /\ loaded_plan = <<>>
    /\ call_frame = <<>>
    /\ project_dir = <<>>
    /\ api_calls = <<>>

\* stage3b_match.py line 63: _semantic_score(enriched, session, manifest.text_snippets)
SemanticScoreCall ==
    /\ pc = "scoring"
    /\ \E enriched \in SemanticEnriched, i \in 1..Len(manifest.sessions) :
         call_frame' = semantic_call(enriched, manifest.sessions[i],
                                     manifest.text_snippets)
    /\ UNCHANGED <<pc, settings, manifest, photo_set, photo_scores, content_plan,
                   page_plan, cache, item_kwargs, loaded_plan,
                   project_dir, api_calls>>

\* stage3b_match.py lines 215 and 225: _tokenize on the photo's text and on the
\* session's text
TokenizeCall ==
    /\ pc = "scoring"
    /\ \/ \E enriched \in SemanticEnriched \ {None} :
            call_frame' = tokenize_call(photo_text(enriched[1]))
       \/ \E i \in 1..Len(manifest.sessions) :
            call_frame' = tokenize_call(session_text(manifest.sessions[i],
                                                     manifest.text_snippets))
    /\ UNCHANGED <<pc, settings, manifest, photo_set, photo_scores, content_plan,
                   page_plan, cache, item_kwargs, loaded_plan,
                   project_dir, api_calls>>

NextSemantic == SemanticScoreCall \/ TokenizeCall

SpecSemantic == InitSemantic /\ [][NextSemantic]_vars

-----------------------------------------------------------------------------
(* Properties of the semantic scorer and the tokenizer (SpecSemantic) *)

SemanticCalled == call_frame # <<>> /\ call_frame.fn = "_semantic_score"

TokenizeCalled == call_frame # <<>> /\ call_frame.fn = "_tokenize"

\* the tokens of the parts of a photo's enrichment: keywords, OCR text, description
PhotoVocabulary(e) ==
    UNION { tokenize(e.topic_keywords[k]) : k \in 1..Len(e.topic_keywords) }
    \cup (IF e.ocr_text = None THEN {} ELSE tokenize(e.ocr_text[1]))
    \cup tokenize(e.description)

\* the tokens of the session name and of every text snippet's content
SessionVocabulary(session, text_snippets) ==
    tokenize(session.name)
    \cup UNION { tokenize(text_snippets[k].content) : k \in 1..Len(text_snippets) }

\* C19: the semantic score is 0.1 when the photo has no enrichment or when the photo
\* vocabulary or the session vocabulary is empty; otherwise it is
\* max(0.1, round(|P \cap S| / |P \cup S|, 4)); it lies in [0.1, 1.0] and is 0.1
\* when the two vocabularies share no token.
C19_SemanticScoreJaccard ==
    SemanticCalled =>
        LET f == call_frame
            P == IF f.enriched = None THEN {} ELSE PhotoVocabulary(f.enriched[1])
            S == SessionVocabulary(f.session, manifest.text_snippets)
            jaccard == Round4(Rat(Cardinality(P \cap S), Cardinality(P \cup S)))
        IN  /\ (f.enriched = None \/ P = {} \/ S = {}) => f.result = Rat(1, 10)
            /\ (f.enriched # None /\ P # {} /\ S # {}) =>
                  f.result = (IF RatLess(jaccard, Rat(1, 10)) THEN Rat(1, 10)
                              ELSE jaccard)
            /\ RatLeq(Rat(1, 10), f.result)
            /\ RatLeq(f.result, Rat(1, 1))
            /\ P \cap S = {} => f.result = Rat(1, 10)

\* C19 witness: two non-empty vocabularies that share part of their tokens scored
\* above the floor and below 1.0
C19_Witness ==
    /\ SemanticCalled
    /\ call_frame.enriched # None
    /\ RatLess(Rat(1, 10), call_frame.result)
    /\ RatLess(call_frame.result, Rat(1, 1))
    /\ Len(manifest.text_snippets) = 2

\* the lowercased maximal runs of alphabetic characters of a text that have two or
\* more characters: a run is bounded on each side by a character that is not
\* alphabetic or by the end of the text
AlphabeticRuns(text) ==
    LET n == Len(text)
        low == [i \in 1..n |-> lower(text[i])]
        Alpha(i) == text[i] \in AlphaChars
    IN  { SubSeq(low, a, b) :
            <<a, b>> \in { r \in (1..n) \X (1..n) :
                             /\ r[1] < r[2]
                             /\ \A k \in r[1]..r[2] : Alpha(k)
                             /\ (r[1] = 1 \/ ~Alpha(r[1] - 1))
                             /\ (r[2] = n \/ ~Alpha(r[2] + 1)) } }

\* C20: for every text the tokenizer returns exactly the lowercased maximal
\* alphabetic runs of length >= 2, whatever delimits them: spaces, punctuation,
\* digits or underscores.
C20_TokenizeAlphabeticRuns ==
    TokenizeCalled => call_frame.result = AlphabeticRuns(call_frame.text)

\* the part of C20 that holds: the same for texts in which no alphabetic run touches
\* a digit or an underscore
TokenizeAlphabeticRunsNoDigits ==
    (TokenizeCalled
     /\ \A i \in 1..Len(call_frame.text) : call_frame.text[i] \notin {"1", "_"})
        => call_frame.result = AlphabeticRuns(call_frame.text)

-----------------------------------------------------------------------------
(* The empty agenda (SpecMatch) *)

\* the photo ids listed anywhere in the plan run() returned
AssignedIds ==
    UNION { { content_plan[i].photo_ids[k] : k \in 1..Len(content_plan[i].photo_ids) } :
            i \in 1..Len(content_plan) }

\* C21: run() on a manifest without sessions, whatever photos and enrichments it
\* is given, completes and returns a ContentPlan without items; the artifact it
\* writes is that empty plan, and no photo is assigned to anything.
C21_EmptySessionsEmptyPlan ==
    (pc = "matched" /\ manifest.sessions = <<>>) =>
        /\ content_plan = <<>>
        /\ AssignedIds = {}
        /\ cache.content_plan = Some(plan_dump_json(<<>>))
        /\ plan_validate_json(cache.content_plan[1]) = <<>>

\* C21 witness: run() returned for no sessions, two photos, one of them enriched
C21_Witness ==
    /\ pc = "matched"
    /\ manifest.sessions = <<>>
    /\ Len(manifest.photos) = 2
    /\ Len(photo_set) = 1
    /\ content_plan = <<>>

-----------------------------------------------------------------------------
(* The cover page (SpecLayout) *)

\* the positions of the cover pages in the plan
CoverPages == { p \in 1..Len(page_plan) : page_plan[p].page_type = "cover" }

\* a location is present when the agenda gave a non-empty one
LocationPresent == manifest.meta.location # None /\ manifest.meta.location[1] # ""

\* the body blocks the cover owes the manifest: the date, then the location
CoverBodies ==
    (IF manifest.meta.workshop_date # None
     THEN << [content |-> "9. März 2026", role |-> "body", style_ref |-> "body"] >>
     ELSE <<>>)
    \o
    (IF LocationPresent
     THEN << [content |-> manifest.meta.location[1], role |-> "body",
              style_ref |-> "body"] >>
     ELSE <<>>)

-----------------------------------------------------------------------------
(* Clock time only (SpecTemporal) *)

\* the timestamp _temporal_score read in call f, None when the photo has none
StampOf(f) ==
    IF f.photo.timestamp_exif # None THEN f.photo.timestamp_exif
    ELSE f.photo.timestamp_file

\* two consecutive calls for the same session whose photos show the same hour,
\* minute and second return the same score
SameClockSameScore ==
    (/\ call_frame # <<>>
     /\ call_frame' # <<>>
     /\ call_frame'.session = call_frame.session
     /\ StampOf(call_frame) # None
     /\ StampOf(call_frame') # None
     /\ StampOf(call_frame)[1].tod = StampOf(call_frame')[1].tod)
    => call_frame'.result = call_frame.result

\* C27: the temporal score depends on a photo's timestamp only through the clock
\* time it shows: for one session of one session list, two photos whose
\* timestamps show the same hour, minute and second get the same score, whatever
\* their dates and UTC offsets.
C27_ClockTimeOnly == [][SameClockSameScore]_vars

\* C27 witness: a photo stamped 10:15 at UTC+2 scored 0.5 against the window
\* 09:00-10:00, as the photo stamped 10:15 UTC does
C27_Witness ==
    /\ TemporalCalled
    /\ StampOf(call_frame) = Some(DatetimeTz(1, Time(10, 15, 0), 120))
    /\ call_frame.session.start_time = Some(Time(9, 0, 0))
    /\ call_frame.end = Some(Time(10, 0, 0))
    /\ call_frame.result = Rat(1, 2)

-----------------------------------------------------------------------------
(* Sessions without a start time (SpecTemporal) *)

\* call f scored a timestamped photo against a session without a start time, in
\* a list where some session has one
UntimedAmongTimed(f) ==
    /\ StampOf(f) # None
    /\ f.session.start_time = None
    /\ \E i \in 1..Len(manifest.sessions) : manifest.sessions[i].start_time # None

\* a call for a session without a start time, followed by a call for the same
\* photo and a session with a start time, does not return the greater score
UntimedNotAboveTimed ==
    (/\ call_frame # <<>>
     /\ call_frame' # <<>>
     /\ UntimedAmongTimed(call_frame)
     /\ call_frame'.photo = call_frame.photo
     /\ call_frame'.session.start_time # None)
    => RatLeq(call_frame.result, call_frame'.result)

\* C30: for a timestamped photo and a session list in which some session has a
\* start time, the score of a session without a start time is above 0 and never
\* greater than the score of any session of the list that has a start time.
C30_UntimedLowestPriority ==
    /\ []((TemporalCalled /\ UntimedAmongTimed(call_frame)) =>
             RatLess(Rat(0, 1), call_frame.result))
    /\ [][UntimedNotAboveTimed]_vars

-----------------------------------------------------------------------------
(* Text snippet references (SpecMatch) *)

\* the items of the plan that refer to a text snippet
ItemsWithSnippet ==
    { i \in 1..Len(content_plan) : content_plan[i].text_snippet_ref # None }

\* the sessions that come first by their order field
FirstOrdered ==
    { i \in 1..Len(manifest.sessions) :
        \A j \in 1..Len(manifest.sessions) :
            manifest.sessions[i].order <= manifest.sessions[j].order }

\* C29: when the manifest has at least one text snippet, exactly one item of the
\* plan, the item of the first-ordered session, has text_snippet_ref equal to
\* the id of the first snippet and every other item has none; without snippets
\* no item has a text_snippet_ref.
C29_FirstSnippetToFirstSession ==
    Matched =>
        IF manifest.text_snippets # <<>>
        THEN /\ Cardinality(ItemsWithSnippet) = 1
             /\ ItemsWithSnippet = FirstOrdered
             /\ \A i \in ItemsWithSnippet :
                   content_plan[i].text_snippet_ref = Some(manifest.text_snippets[1].id)
        ELSE ItemsWithSnippet = {}

\* C29 witness: a plan of two items built with a snippet; the first item refers
\* to it and the second does not
C29_Witness ==
    /\ Matched
    /\ Len(content_plan) = 2
    /\ manifest.text_snippets # <<>>
    /\ content_plan[1].text_snippet_ref = Some("text_001")
    /\ content_plan[2].text_snippet_ref = None

-----------------------------------------------------------------------------
(* pipeline/stage3a_enrich.py *)

MAX_RETRIES == 6

\* what the endpoint answers to one request: a parsed PhotoAnalysis, a
\* RateLimitError, or any other exception
Responses ==
    { [kind |-> "ok", parsed |-> Some(a)] : a \in { AnalysisA, AnalysisB } }
    \cup { [kind |-> "RateLimitError", parsed |-> None],
           [kind |-> "APIError", parsed |-> None] }

\* the frame of _call_vision_api on entry: the loop is about to make attempt 0
vision_frame(image_bytes) ==
    [fn |-> "_call_vision_api", image_bytes |-> image_bytes, attempt |-> 0,
     status |-> "attempting", result |-> None, error |-> None]

\* a loop body that backs off and retries after every exception
vision_attempt_retry_any_error(f, response) ==
    IF response.kind = "ok"
    THEN [f EXCEPT !.status = "returned", !.result = response.parsed]
    ELSE IF f.attempt = MAX_RETRIES - 1
         THEN [f EXCEPT !.status = "raised", !.error = Some(response.kind)]
         ELSE [f EXCEPT !.attempt = @ + 1]

\* lines 208-238, one iteration of `for attempt in range(_MAX_RETRIES)`: the
\* request, and what the loop does with the endpoint's response
vision_attempt(f, response) ==
    IF response.kind = "ok"
    THEN [f EXCEPT !.status = "returned", !.result = response.parsed]
    ELSE IF response.kind = "RateLimitError"
         THEN IF f.attempt = MAX_RETRIES - 1
              THEN [f EXCEPT !.status = "raised", !.error = Some(response.kind)]
              \* time.sleep(2 ** attempt + random.uniform(0, 1)), then the next attempt
              ELSE [f EXCEPT !.attempt = @ + 1]
         ELSE [f EXCEPT !.status = "raised", !.error = Some(response.kind)]

\* the request log after the endpoint answered one more request
log_request(log, image_bytes, response) ==
    Append(log, [image_bytes |-> image_bytes, kind |-> response.kind])

\* _call_vision_api run to its end against the responses the endpoint gives, one
\* per request: the final frame and the request log
RECURSIVE call_vision_api(_, _, _)
call_vision_api(f, responses, log) ==
    IF f.status # "attempting" THEN [frame |-> f, log |-> log]
    ELSE call_vision_api(vision_attempt(f, Head(responses)), Tail(responses),
                         log_request(log, f.image_bytes, Head(responses)))

\* a project directory: the agenda as parse_agenda reads it (None when agenda/
\* holds no file), the files of fotos/, the snippets of text/ and the rendered PDF
MakeProjectDir(agenda, fotos, text) ==
    [agenda |-> agenda, fotos |-> fotos, text |-> text, output |-> None]

\* the photo stage 1 inventories as the index-th file of fotos/ (lines 106-144)
PhotoAt(index, path) ==
    [id |-> PhotoIds[index], path |-> path, timestamp_exif |-> None,
     timestamp_file |-> FileStamp, orientation |-> "landscape"]

\* _inventory_photos: the files of fotos/ in sorted order, numbered from 1
inventory_photos(fotos) ==
    LET photo_files == SelectSeq(FotoPaths, LAMBDA p : p \in DOMAIN fotos /\ fotos[p] # None)
    IN  [index \in 1..Len(photo_files) |-> PhotoAt(index, photo_files[index])]

\* photo_path.read_bytes(): None stands for the FileNotFoundError
read_bytes(fotos, path) == fotos[path]

\* a stage that forgets to write the cache file
cache_store_skipped(analyses, content_hash, result) == analyses

\* line 141, cache_file.write_text(result.model_dump_json(indent=2))
cache_store(analyses, content_hash, result) ==
    [analyses EXCEPT ![content_hash] = Some(result)]

\* lines 118-125, the cache hit: the record is returned as it was stored.  The
\* processed file and its path are not modelled; rewriting a missing one changes
\* no field kept here.
cache_hit(photo, cached) == cached

\* _analyse_photo, lines 107-142: the record returned (None when the call raised),
\* the analysis cache and the request log afterwards
analyse_photo(photo, fotos, analyses, log, responses) ==
    LET original_bytes == read_bytes(fotos, photo.path)
    IN  IF original_bytes = None
        THEN [result |-> None, analyses |-> analyses, log |-> log]
        ELSE LET content_hash == original_bytes[1]
             IN  IF analyses[content_hash] # None
                 THEN [result |-> Some(cache_hit(photo, analyses[content_hash][1])),
                       analyses |-> analyses, log |-> log]
                 ELSE LET call == call_vision_api(vision_frame(content_hash),
                                                  responses, log)
                      IN  IF call.frame.status = "returned"
                          THEN LET result == EnrichedPhoto(photo.id, call.frame.result[1])
                               IN  [result |-> Some(result),
                                    analyses |-> cache_store(analyses, content_hash,
                                                             result),
                                    log |-> call.log]
                          ELSE [result |-> None, analyses |-> analyses,
                                log |-> call.log]

\* run(), lines 73-81: the loop over the first k photos of the manifest; a photo
\* whose analysis raised is skipped
RECURSIVE enrich_photos(_, _, _, _, _, _)
enrich_photos(k, photos, fotos, analyses, log, streams) ==
    IF k = 0 THEN [enriched |-> <<>>, results |-> <<>>, analyses |-> analyses,
                   log |-> log]
    ELSE LET prev == enrich_photos(k - 1, photos, fotos, analyses, log, streams)
             one == analyse_photo(photos[k], fotos, prev.analyses, prev.log, streams[k])
         IN  [enriched |-> IF one.result = None THEN prev.enriched
                           ELSE Append(prev.enriched, one.result[1]),
              results |-> Append(prev.results, one.result),
              analyses |-> one.analyses,
              log |-> one.log]

\* the responses the endpoint gives to the requests of one call: an analysis at
\* once, an analysis after a rate limit, or an error that ends the call
ResponseStreams ==
    { << [kind |-> "ok", parsed |-> Some(AnalysisA)] >>,
      << [kind |-> "RateLimitError", parsed |-> None],
         [kind |-> "ok", parsed |-> Some(AnalysisB)] >>,
      << [kind |-> "APIError", parsed |-> None] >> }

\* the model follows the runs until the endpoint has seen this many requests
MaxRequests == 3

\* run(), lines 60-104; the frame keeps what _analyse_photo gave for each photo
\* of the manifest, None where it raised
Stage3aRun ==
    /\ pc \in { "ingested", "changed", "enriched" }
    /\ \E streams \in [1..Len(manifest.photos) -> ResponseStreams] :
         LET st == enrich_photos(Len(manifest.photos), manifest.photos,
                                 project_dir.fotos, cache.analyses, api_calls, streams)
         IN  /\ photo_set' = st.enriched
             /\ cache' = [cache EXCEPT !.analyses = st.analyses,
                                       !.enriched_photos = Some(st.enriched)]
             /\ api_calls' = st.log
             /\ Len(st.log) <= MaxRequests
             /\ call_frame' = [fn |-> "run", results |-> st.results]
    /\ pc' = "enriched"
    /\ UNCHANGED <<settings, manifest, photo_scores, content_plan, page_plan,
                   item_kwargs, loaded_plan, project_dir>>

\* _default_sessions, lines 88-89
default_sessions ==
    << [id |-> "session_001", order |-> 1,
        name |-> <<"W","o","r","k","s","h","o","p">>,
        start_time |-> None, end_time |-> None] >>

\* _load_agenda, lines 64-85: the defaults when agenda/ holds no file, else what
\* parse_agenda extracts from the file
load_agenda(agenda) ==
    IF agenda = None THEN [meta |-> DefaultMeta, sessions |-> default_sessions]
    ELSE agenda[1]

\* stage1_ingest.run(), lines 29-43: the manifest of the project directory
stage1_ingest(dir) ==
    [meta |-> load_agenda(dir.agenda).meta,
     sessions |-> load_agenda(dir.agenda).sessions,
     photos |-> inventory_photos(dir.fotos),
     text_snippets |-> dir.text]

\* stage1_ingest.run(): the manifest is built and written to manifest.json
Stage1Run ==
    /\ pc \in { "changed", "enriched" }
    /\ manifest' = stage1_ingest(project_dir)
    /\ cache' = [cache EXCEPT !.manifest = Some(manifest')]
    /\ pc' = "ingested"
    /\ UNCHANGED <<settings, photo_set, photo_scores, content_plan, page_plan,
                   item_kwargs, loaded_plan, call_frame, project_dir, api_calls>>


\* the user adds, replaces or deletes one file of fotos/ between two runs
FotosChange ==
    /\ pc = "enriched"
    /\ \E index \in 1..Len(FotoPaths),
          content \in { None } \cup { Some(c) : c \in Contents } :
         /\ project_dir.fotos[FotoPaths[index]] # content
         /\ project_dir' = [project_dir EXCEPT !.fotos[FotoPaths[index]] = content]
    /\ pc' = "changed"
    /\ UNCHANGED <<settings, manifest, photo_set, photo_scores, content_plan,
                   page_plan, cache, item_kwargs, loaded_plan, call_frame, api_calls>>

InitEnrich ==
    /\ pc = "ingested"
    /\ \E fotos \in [{ FotoPaths[i] : i \in 1..Len(FotoPaths) } ->
                        { None } \cup { Some(c) : c \in Contents }] :
         /\ project_dir = MakeProjectDir(None, fotos, <<>>)
         /\ manifest = stage1_ingest(project_dir)
    /\ settings = MakeSettings(<<Rat(6, 10), Rat(4, 10)>>, Rat(65, 100), 2, FALSE)
    /\ photo_set = <<>>
    /\ photo_scores = <<>>
    /\ content_plan = <<>>
    /\ page_plan = <<>>
    /\ cache = EmptyCache
    /\ item_kwargs = <<>>
    /\ loaded_plan = <<>>
    /\ call_frame = <<>>
    /\ api_calls = <<>>

NextEnrich == Stage3aRun \/ Stage1Run \/ FotosChange

SpecEnrich == InitEnrich /\ [][NextEnrich]_vars

-----------------------------------------------------------------------------
(* Photo ids of the enriched set (SpecEnrich) *)

Enriched == pc = "enriched"

\* the ids of the manifest photos whose analysis did not raise in the last run,
\* in manifest order
AnalysedIds ==
    LET kept == SelectSeq([k \in 1..Len(manifest.photos) |-> k],
                          LAMBDA k : call_frame.results[k] # None)
    IN  [j \in 1..Len(kept) |-> manifest.photos[kept[j]].id]

\* C23: after any sequence of runs sharing one analysis cache, the photo_id
\* sequence of the returned set is the id sequence, in manifest order, of the
\* photos whose analysis did not fail, and the entry produced for a photo
\* carries that photo's id, whether it came from the API or from the cache.
C23_EnrichedIdsFollowManifest ==
    Enriched =>
        /\ Len(photo_set) = Len(AnalysedIds)
        /\ \A j \in 1..Len(photo_set) : photo_set[j].photo_id = AnalysedIds[j]
        /\ \A k \in 1..Len(manifest.photos) :
              call_frame.results[k] # None =>
                  call_frame.results[k][1].photo_id = manifest.photos[k].id

\* a failing photo is skipped without aborting the others: the returned set has
\* one entry per photo whose analysis did not fail, in manifest order
SkippedPhotosOnly ==
    Enriched =>
        /\ Len(photo_set) = Len(AnalysedIds)
        /\ photo_set = SelectSeq([k \in 1..Len(manifest.photos) |->
                                     IF call_frame.results[k] = None THEN <<>>
                                     ELSE call_frame.results[k][1]],
                                 LAMBDA r : r # <<>>)

-----------------------------------------------------------------------------
(* The analysis cache (SpecEnrich) *)

\* the positions of the requests for content c that the endpoint answered with an
\* analysis
Successes(c) ==
    { k \in 1..Len(api_calls) :
        api_calls[k].image_bytes = c /\ api_calls[k].kind = "ok" }

\* the analysis fields of an enriched photo: everything but the photo id
AnalysisFields(e) ==
    [description |-> e.description, ocr_text |-> e.ocr_text,
     topic_keywords |-> e.topic_keywords, crop_box |-> e.crop_box]

\* the API is asked only while the content has no cache entry, and an entry is
\* written after every successful analysis: a content has an entry exactly when
\* a request for it succeeded, no request for it follows its success, and so no
\* content has two successes
CacheGuardsApi ==
    \A c \in Contents :
        /\ (cache.analyses[c] # None) <=> (Successes(c) # {})
        /\ Cardinality(Successes(c)) <= 1
        /\ \A k \in Successes(c) :
              \A l \in (k + 1)..Len(api_calls) : api_calls[l].image_bytes # c

\* a step is a run of stage 3a that directly follows a run: the manifest and the
\* files are those of the run before
RepeatedRun == pc = "enriched" /\ pc' = "enriched"

\* the run before is repeated: what it returned for a photo is returned again,
\* with the same analysis fields
SameAnalysisFields ==
    \A k \in 1..Len(manifest.photos) :
        call_frame.results[k] # None =>
            /\ call_frame'.results[k] # None
            /\ AnalysisFields(call_frame'.results[k][1])
                 = AnalysisFields(call_frame.results[k][1])

\* no photo of the manifest is left whose file can be read and whose content has
\* no cache entry
AllCached ==
    \A k \in 1..Len(manifest.photos) :
        LET original_bytes == read_bytes(project_dir.fotos, manifest.photos[k].path)
        IN  original_bytes # None => cache.analyses[original_bytes[1]] # None

\* C24 as stated: the cache guards the API, and every repeated run over unchanged
\* photos makes no API call and returns the same analysis fields.
C24_RepeatedRunNoApiCall ==
    /\ []CacheGuardsApi
    /\ [][RepeatedRun => (api_calls' = api_calls /\ SameAnalysisFields)]_vars

\* C24 amended: the cache guards the API, so each content has at most one
\* successful API call; a repeated run over unchanged photos returns the same
\* analysis fields for every photo the run before returned, and makes no API
\* call when every readable photo's content has a cache entry (a photo skipped
\* for an API error is asked for again).
C24_RepeatedRunAsksOnlyForUncached ==
    /\ []CacheGuardsApi
    /\ [][RepeatedRun =>
            /\ SameAnalysisFields
            /\ (AllCached => api_calls' = api_calls)
            /\ \A l \in (Len(api_calls) + 1)..Len(api_calls') :
                  cache.analyses[api_calls'[l].image_bytes] = None]_vars

\* C24 witness: the first run analysed a.jpg and lost b.jpg to an API error; the
\* second run returned both, a.jpg from the cache and b.jpg from a new request
C24_Witness ==
    /\ Enriched
    /\ Len(photo_set) = 2
    /\ api_calls = << [image_bytes |-> "bytes_a", kind |-> "ok"],
                      [image_bytes |-> "bytes_b", kind |-> "APIError"],
                      [image_bytes |-> "bytes_b", kind |-> "ok"] >>

-----------------------------------------------------------------------------
(* One run of stage 3a, request by request *)

\* the position in run(): which photo of the manifest the loop is at, and where
At(at, photo) == [at |-> at, photo |-> photo]

\* run() lines 73-75 and _analyse_photo lines 114-125: the next photo is read; an
\* unreadable file is skipped, a cache hit is appended, a miss enters
\* _call_vision_api
AnalysePhotoStart ==
    /\ pc.at = "run_loop"
    /\ pc.photo <= Len(manifest.photos)
    /\ LET photo == manifest.photos[pc.photo]
           original_bytes == read_bytes(project_dir.fotos, photo.path)
       IN  IF original_bytes = None
           THEN /\ pc' = At("run_loop", pc.photo + 1)
                /\ UNCHANGED <<photo_set, call_frame>>
           ELSE IF cache.analyses[original_bytes[1]] # None
           THEN /\ photo_set' = Append(photo_set,
                                       cache_hit(photo, cache.analyses[original_bytes[1]][1]))
                /\ pc' = At("run_loop", pc.photo + 1)
                /\ UNCHANGED call_frame
           ELSE /\ call_frame' = vision_frame(original_bytes[1])
                /\ pc' = At("vision_call", pc.photo)
                /\ UNCHANGED photo_set
    /\ UNCHANGED <<settings, manifest, photo_scores, content_plan, page_plan, cache,
                   item_kwargs, loaded_plan, project_dir, api_calls>>

\* one attempt of _call_vision_api: the request is sent and the endpoint answers
VisionAttempt ==
    /\ pc.at = "vision_call"
    /\ call_frame.status = "attempting"
    /\ \E response \in Responses :
         /\ call_frame' = vision_attempt(call_frame, response)
         /\ api_calls' = log_request(api_calls, call_frame.image_bytes, response)
    /\ UNCHANGED <<pc, settings, manifest, photo_set, photo_scores, content_plan,
                   page_plan, cache, item_kwargs, loaded_plan, project_dir>>

\* the call is over.  _analyse_photo lines 131-142 store and return the result of
\* a call that returned; run() lines 77-79 skip the photo of a call that raised
VisionCallEnd ==
    /\ pc.at = "vision_call"
    /\ call_frame.status \in { "returned", "raised" }
    /\ IF call_frame.status = "returned"
       THEN LET result == EnrichedPhoto(manifest.photos[pc.photo].id,
                                        call_frame.result[1])
            IN  /\ cache' = [cache EXCEPT !.analyses =
                                cache_store(@, call_frame.image_bytes, result)]
                /\ photo_set' = Append(photo_set, result)
       ELSE UNCHANGED <<cache, photo_set>>
    /\ pc' = At("run_loop", pc.photo + 1)
    /\ UNCHANGED <<settings, manifest, photo_scores, content_plan, page_plan,
                   item_kwargs, loaded_plan, call_frame, project_dir, api_calls>>

\* run() lines 90-93: enriched_photos.json is written
Stage3aFinish ==
    /\ pc.at = "run_loop"
    /\ pc.photo = Len(manifest.photos) + 1
    /\ cache' = [cache EXCEPT !.enriched_photos = Some(photo_set)]
    /\ pc' = At("enriched", pc.photo)
    /\ UNCHANGED <<settings, manifest, photo_set, photo_scores, content_plan,
                   page_plan, item_kwargs, loaded_plan, call_frame, project_dir,
                   api_calls>>

InitVision ==
    /\ pc = At("run_loop", 1)
    /\ \E fotos \in [{ FotoPaths[i] : i \in 1..Len(FotoPaths) } ->
                        { None } \cup { Some(c) : c \in Contents }] :
         /\ project_dir = MakeProjectDir(None, fotos, <<>>)
         /\ manifest = stage1_ingest(project_dir)
    /\ settings = MakeSettings(<<Rat(6, 10), Rat(4, 10)>>, Rat(65, 100), 2, FALSE)
    /\ photo_set = <<>>
    /\ photo_scores = <<>>
    /\ content_plan = <<>>
    /\ page_plan = <<>>
    /\ cache = EmptyCache
    /\ item_kwargs = <<>>
    /\ loaded_plan = <<>>
    /\ call_frame = <<>>
    /\ api_calls = <<>>

NextVision == AnalysePhotoStart \/ VisionAttempt \/ VisionCallEnd \/ Stage3aFinish

\* the client call returns or raises and every back-off sleep ends, so an attempt
\* that is due is made
SpecVision == InitVision /\ [][NextVision]_vars /\ WF_vars(VisionAttempt)

-----------------------------------------------------------------------------
(* Retries of the Vision API call (SpecVision) *)

InCall == pc.at = "vision_call"

CallOver == call_frame # <<>> /\ call_frame.status \in { "returned", "raised" }

\* the requests the current call has made: the tail of the log since the call
\* was entered
CallRequests ==
    call_frame.attempt + (IF call_frame.status = "attempting" THEN 0 ELSE 1)

\* what one step of a call does: an attempt sends one request and goes on as the
\* response says; a call that is over sends nothing more, and its end hands the
\* result to the set or skips the photo
AttemptRules ==
    InCall =>
        IF call_frame.status = "attempting"
        THEN /\ Len(api_calls') = Len(api_calls) + 1
             /\ LET kind == api_calls'[Len(api_calls')].kind
                IN  /\ kind = "ok" =>
                          /\ call_frame'.status = "returned"
                          /\ call_frame'.result # None
                    /\ (kind = "RateLimitError" /\ call_frame.attempt + 1 < MAX_RETRIES) =>
                          /\ call_frame'.status = "attempting"
                          /\ call_frame'.attempt = call_frame.attempt + 1
                    /\ (kind = "RateLimitError" /\ call_frame.attempt + 1 = MAX_RETRIES) =>
                          /\ call_frame'.status = "raised"
                          /\ call_frame'.error = Some("RateLimitError")
                    /\ kind \notin { "ok", "RateLimitError" } =>
                          /\ call_frame'.status = "raised"
                          /\ call_frame'.error = Some(kind)
        ELSE /\ api_calls' = api_calls
             /\ pc'.at = "run_loop"
             /\ call_frame.status = "raised" => photo_set' = photo_set
             /\ call_frame.status = "returned" =>
                   /\ Len(photo_set') = Len(photo_set) + 1
                   /\ AnalysisFields(photo_set'[Len(photo_set')])
                        = AnalysisFields(call_frame.result[1])

\* C25: the Vision API call for one photo ends after at most 6 attempts: a rate
\* limit on attempts 1 to 5 is followed by another attempt, the first success
\* returns its result without a further attempt, a rate limit on the 6th attempt
\* is raised to the caller, which skips the photo, any other error is raised at
\* once, and every call that was entered is over at some point.
C25_VisionCallTerminates ==
    /\ [](InCall => (call_frame.attempt < MAX_RETRIES /\ CallRequests <= MAX_RETRIES))
    /\ [][AttemptRules]_vars
    /\ ((InCall /\ call_frame.status = "attempting") ~> CallOver)

\* C25 witness: the sixth attempt of a call was rate-limited like the five before
\* it, and the call raised
C25_Witness ==
    /\ InCall
    /\ call_frame.status = "raised"
    /\ call_frame.error = Some("RateLimitError")
    /\ call_frame.attempt = MAX_RETRIES - 1
    /\ Len(api_calls) >= MAX_RETRIES
    /\ \A k \in (Len(api_calls) - MAX_RETRIES + 1)..Len(api_calls) :
          api_calls[k].kind = "RateLimitError"

-----------------------------------------------------------------------------
(* run_pipeline.py: main() *)

\* line 46
runs_stage1(from_stage) == from_stage <= 1

\* line 53
runs_stage3(from_stage) == from_stage <= 3

\* a driver that reloads the page plan when asked to start from stage 4
runs_stage4_before_4(from_stage) == from_stage < 4

\* line 64
runs_stage4(from_stage) == from_stage <= 4

\* _load_json, lines 32-34: the artifact of that name, None for a missing file
load_json(c, name) == c[name]

\* the frame of main(): the parsed --from-stage and, in order, the stages main
\* has executed ("run") or replaced by their cached artifact ("load")
main_frame(from_stage) == [fn |-> "main", from_stage |-> from_stage, executed |-> <<>>]

executed_stage(f, stage, how) ==
    [f EXCEPT !.executed = Append(@, [stage |-> stage, how |-> how])]

\* stage5_render.run(): the PDF, as the page numbers it renders and its title
render_pdf(pages, m) ==
    [title |-> m.meta.title, pages |-> [p \in 1..Len(pages) |-> pages[p].page_number]]

\* the values --from-stage is given: argparse takes every int
FromStages == 0..6

\* lines 38-44: the arguments are parsed; no local of main is bound yet
DriverStart ==
    /\ pc \in { "shell", "done", "crashed" }
    /\ \E from_stage \in FromStages : call_frame' = main_frame(from_stage)
    /\ manifest' = <<>>
    /\ photo_set' = <<>>
    /\ photo_scores' = <<>>
    /\ content_plan' = <<>>
    /\ page_plan' = <<>>
    /\ pc' = "main_stage1"
    /\ UNCHANGED <<settings, cache, item_kwargs, loaded_plan, project_dir, api_calls>>

\* lines 46-51
DriverStage1 ==
    /\ pc = "main_stage1"
    /\ \/ /\ runs_stage1(call_frame.from_stage)
          /\ manifest' = stage1_ingest(project_dir)
          /\ cache' = [cache EXCEPT !.manifest = Some(manifest')]
          /\ call_frame' = executed_stage(call_frame, "1", "run")
          /\ pc' = "main_stage3a"
       \/ /\ ~runs_stage1(call_frame.from_stage)
          /\ load_json(cache, "manifest") # None
          /\ manifest' = load_json(cache, "manifest")[1]
          /\ call_frame' = executed_stage(call_frame, "1", "load")
          /\ pc' = "main_stage3a"
          /\ UNCHANGED cache
       \/ /\ ~runs_stage1(call_frame.from_stage)
          /\ load_json(cache, "manifest") = None
          /\ pc' = "crashed"
          /\ UNCHANGED <<manifest, cache, call_frame>>
    /\ UNCHANGED <<settings, photo_set, photo_scores, content_plan, page_plan,
                   item_kwargs, loaded_plan, project_dir, api_calls>>

\* lines 53-55 and 60-61
DriverStage3a ==
    /\ pc = "main_stage3a"
    /\ \/ /\ runs_stage3(call_frame.from_stage)
          /\ \E streams \in [1..Len(manifest.photos) -> ResponseStreams] :
               LET st == enrich_photos(Len(manifest.photos), manifest.photos,
                                       project_dir.fotos, cache.analyses, api_calls,
                                       streams)
               IN  /\ Len(st.log) <= MaxRequests
                   /\ photo_set' = st.enriched
                   /\ cache' = [cache EXCEPT !.analyses = st.analyses,
                                             !.enriched_photos = Some(st.enriched)]
                   /\ api_calls' = st.log
          /\ call_frame' = executed_stage(call_frame, "3a", "run")
          /\ pc' = "main_stage3b"
       \/ /\ ~runs_stage3(call_frame.from_stage)
          /\ load_json(cache, "enriched_photos") # None
          /\ photo_set' = load_json(cache, "enriched_photos")[1]
          /\ call_frame' = executed_stage(call_frame, "3a", "load")
          /\ pc' = "main_stage3b"
          /\ UNCHANGED <<cache, api_calls>>
       \/ /\ ~runs_stage3(call_frame.from_stage)
          /\ load_json(cache, "enriched_photos") = None
          /\ pc' = "crashed"
          /\ UNCHANGED <<photo_set, cache, call_frame, api_calls>>
    /\ UNCHANGED <<settings, manifest, photo_scores, content_plan, page_plan,
                   item_kwargs, loaded_plan, project_dir>>

\* lines 57-58 and 62
DriverStage3b ==
    /\ pc = "main_stage3b"
    /\ \/ /\ runs_stage3(call_frame.from_stage)
          /\ photo_scores' = IF manifest.sessions = <<>> THEN photo_scores
                             ELSE build_photo_scores(Len(manifest.photos), manifest,
                                                     photo_set)
          /\ content_plan' = IF manifest.sessions = <<>> THEN <<>>
                             ELSE build_items(manifest, photo_scores', settings)
          /\ cache' = write_artifact(cache, content_plan')
          /\ call_frame' = executed_stage(call_frame, "3b", "run")
          /\ pc' = "main_stage4"
       \/ /\ ~runs_stage3(call_frame.from_stage)
          /\ load_json(cache, "content_plan") # None
          /\ content_plan' = plan_validate_json(load_json(cache, "content_plan")[1])
          /\ call_frame' = executed_stage(call_frame, "3b", "load")
          /\ pc' = "main_stage4"
          /\ UNCHANGED <<photo_scores, cache>>
       \/ /\ ~runs_stage3(call_frame.from_stage)
          /\ load_json(cache, "content_plan") = None
          /\ pc' = "crashed"
          /\ UNCHANGED <<photo_scores, content_plan, cache, call_frame>>
    /\ UNCHANGED <<settings, manifest, photo_set, page_plan, item_kwargs, loaded_plan,
                   project_dir, api_calls>>

\* lines 64-69
DriverStage4 ==
    /\ pc = "main_stage4"
    /\ \/ /\ runs_stage4(call_frame.from_stage)
          /\ LET cover == make_cover(1, manifest)
                 st == layout_items(1, [pages |-> <<cover>>, page_number |-> 1 + 1],
                                    content_plan, settings, photo_set, manifest.photos)
             IN  page_plan' = st.pages
          /\ cache' = [cache EXCEPT !.page_plan = Some(page_plan_dump_json(page_plan'))]
          /\ call_frame' = executed_stage(call_frame, "4", "run")
          /\ pc' = "main_stage5"
       \/ /\ ~runs_stage4(call_frame.from_stage)
          /\ load_json(cache, "page_plan") # None
          /\ page_plan' = load_json(cache, "page_plan")[1].pages
          /\ call_frame' = executed_stage(call_frame, "4", "load")
          /\ pc' = "main_stage5"
          /\ UNCHANGED cache
       \/ /\ ~runs_stage4(call_frame.from_stage)
          /\ load_json(cache, "page_plan") = None
          /\ pc' = "crashed"
          /\ UNCHANGED <<page_plan, cache, call_frame>>
    /\ UNCHANGED <<settings, manifest, photo_set, photo_scores, content_plan,
                   item_kwargs, loaded_plan, project_dir, api_calls>>

\* lines 71-74
DriverStage5 ==
    /\ pc = "main_stage5"
    /\ project_dir' = [project_dir EXCEPT !.output = Some(render_pdf(page_plan, manifest))]
    /\ call_frame' = executed_stage(call_frame, "5", "run")
    /\ pc' = "done"
    /\ UNCHANGED <<settings, manifest, photo_set, photo_scores, content_plan,
                   page_plan, cache, item_kwargs, loaded_plan, api_calls>>

\* the agenda of a two-session workshop as parse_agenda returns it
DriverAgenda ==
    [meta |-> [title |-> "Workshop",
               workshop_date |-> Some([day |-> 9, month |-> 3, year |-> 2026]),
               location |-> Some("Berlin")],
     sessions |-> << AgendaSession(1, <<Some(Time(9, 0, 0)), Some(Time(10, 0, 0))>>),
                     AgendaSession(2, <<Some(Time(10, 0, 0)), None>>) >>]

\* the fotos/ directories of the driver runs: two photos, and one photo
DriverFotos ==
    { (FotoPaths[1] :> Some("bytes_a")) @@ (FotoPaths[2] :> Some("bytes_b")),
      (FotoPaths[1] :> None) @@ (FotoPaths[2] :> Some("bytes_a")) }

InitDriver ==
    /\ pc = "shell"
    /\ \E agenda \in { None, Some(DriverAgenda) }, fotos \in DriverFotos,
          text \in SnippetLists :
         project_dir = MakeProjectDir(agenda, fotos, text)
    /\ \E mpp \in 1..MaxPerPage, div \in BOOLEAN :
         settings = MakeSettings(<<Rat(6, 10), Rat(4, 10)>>, Rat(65, 100), mpp, div)
    /\ manifest = <<>>
    /\ photo_set = <<>>
    /\ photo_scores = <<>>
    /\ content_plan = <<>>
    /\ page_plan = <<>>
    /\ cache = EmptyCache
    /\ item_kwargs = <<>>
    /\ loaded_plan = <<>>
    /\ call_frame = <<>>
    /\ api_calls = <<>>

NextDriver ==
    DriverStart \/ DriverStage1 \/ DriverStage3a \/ DriverStage3b \/ DriverStage4
    \/ DriverStage5

SpecDriver == InitDriver /\ [][NextDriver]_vars

-----------------------------------------------------------------------------
(* Stage selection of the driver (SpecDriver) *)

InMain == call_frame # <<>>

\* what --from-stage k asks of a stage: run it, or load its artifact
HowFor(stage, k) ==
    IF stage = "1" THEN (IF k <= 1 THEN "run" ELSE "load")
    ELSE IF stage \in { "3a", "3b" } THEN (IF k <= 3 THEN "run" ELSE "load")
    ELSE IF stage = "4" THEN (IF k <= 4 THEN "run" ELSE "load")
    ELSE "run"

StageOrder == << "1", "3a", "3b", "4", "5" >>

\* the stages whose artifacts a stage consumes
Consumes(stage) ==
    IF stage = "3a" THEN { "1" }
    ELSE IF stage = "3b" THEN { "1", "3a" }
    ELSE IF stage = "4" THEN { "1", "3a", "3b" }
    ELSE IF stage = "5" THEN { "1", "3a", "4" }
    ELSE {}

\* the stages main has dealt with so far
Handled(f) == { f.executed[j].stage : j \in 1..Len(f.executed) }

\* the local of main that holds the artifact of a stage equals the cached file
LoadedFromCache(stage) ==
    IF stage = "1" THEN cache.manifest = Some(manifest)
    ELSE IF stage = "3a" THEN cache.enriched_photos = Some(photo_set)
    ELSE IF stage = "3b"
         THEN /\ cache.content_plan # None
              /\ content_plan = plan_validate_json(cache.content_plan[1])
    ELSE /\ cache.page_plan # None
         /\ page_plan = cache.page_plan[1].pages

\* main handles the stages in the order 1, 3a, 3b, 4, 5, each as --from-stage
\* asks, and whatever it loaded is the cached artifact
StagesAsAsked ==
    InMain =>
        /\ Len(call_frame.executed) <= Len(StageOrder)
        /\ \A j \in 1..Len(call_frame.executed) :
              /\ call_frame.executed[j].stage = StageOrder[j]
              /\ call_frame.executed[j].how =
                    HowFor(StageOrder[j], call_frame.from_stage)
              /\ call_frame.executed[j].how = "load" =>
                    LoadedFromCache(StageOrder[j])
        /\ pc = "done" => Len(call_frame.executed) = Len(StageOrder)

\* a step that starts a stage finds the artifacts the stage consumes produced or
\* loaded
StartsAfterInputs ==
    (InMain /\ call_frame' # <<>> /\ Len(call_frame'.executed) = Len(call_frame.executed) + 1)
    => Consumes(call_frame'.executed[Len(call_frame'.executed)].stage)
          \subseteq Handled(call_frame)

\* C26: with --from-stage k the driver executes stage 1 exactly when k <= 1,
\* stages 3a and 3b exactly when k <= 3, stage 4 exactly when k <= 4 and stage 5
\* always; a stage it does not execute has its artifact loaded from the cache;
\* the stages are handled in the order 1, 3a, 3b, 4, 5 and none starts before
\* the artifacts it consumes have been produced or loaded.
C26_FromStageSelectsStages ==
    /\ []StagesAsAsked
    /\ [][StartsAfterInputs]_vars

\* C26 witness: a run with --from-stage 4 is done: it loaded the manifest, the
\* enriched photos and the content plan, and executed stages 4 and 5
C26_Witness ==
    /\ pc = "done"
    /\ call_frame.from_stage = 4
    /\ call_frame.executed =
          << [stage |-> "1", how |-> "load"], [stage |-> "3a", how |-> "load"],
             [stage |-> "3b", how |-> "load"], [stage |-> "4", how |-> "run"],
             [stage |-> "5", how |-> "run"] >>
    /\ project_dir.output # None

-----------------------------------------------------------------------------
(* Session order through the pipeline (SpecDriver) *)

\* the order field of the session item i refers to
OrderOf(i) ==
    LET k == CHOOSE k \in 1..Len(manifest.sessions) :
                 manifest.sessions[k].id = content_plan[i].session_ref
    IN  manifest.sessions[k].order

\* the item references of the pages after the cover, in page order
PageRefs == [p \in 1..(Len(page_plan) - 1) |-> page_plan[p + 1].content_item_ref]

\* main holds the manifest, a content plan and a page plan, each produced in this
\* run or loaded from the cache
PlansAtHand == pc \in { "main_stage5", "done" }

\* C28: the content plan lists its items, numbered item_001, item_002, ..., in
\* ascending order of their sessions' order field, and the page plan emits the
\* page blocks of the items in that sequence, each item's pages one contiguous
\* block.
C28_SessionOrderKept ==
    PlansAtHand =>
        /\ \A i \in 1..Len(content_plan) : content_plan[i].id = ItemIds[i]
        /\ \A i, j \in 1..Len(content_plan) : i < j => OrderOf(i) < OrderOf(j)
        /\ \A p \in 1..Len(PageRefs) :
              \E i \in 1..Len(content_plan) : PageRefs[p] = Some(content_plan[i].id)
        /\ \A i \in 1..Len(content_plan) :
              \E p \in 1..Len(PageRefs) : PageRefs[p] = Some(content_plan[i].id)
        /\ \A p, q \in 1..Len(PageRefs) :
              p < q =>
                 \A i, j \in 1..Len(content_plan) :
                    (PageRefs[p] = Some(content_plan[i].id)
                     /\ PageRefs[q] = Some(content_plan[j].id)) => i <= j

\* C28 witness: a full run is done for two sessions with section dividers; the
\* pages of item_001 come before those of item_002
C28_Witness ==
    /\ pc = "done"
    /\ call_frame.from_stage = 1
    /\ Len(content_plan) = 2
    /\ settings.section_dividers
    /\ Len(page_plan) >= 5
    /\ page_plan[2].content_item_ref = Some("item_001")
    /\ page_plan[Len(page_plan)].content_item_ref = Some("item_002")

====
